---- MODULE Spec2Model ----
(***************************************************************************)
(* Model of the scanning-and-indexing pipeline of frontend_scanner:        *)
(*   storage/metadata_store.py   MetadataStore (digest table)              *)
(*   storage/vector_store.py     FAISSVectorStore                          *)
(*   agents/chunker.py           ChunkerAgent                              *)
(*   agents/redactor.py          RedactorAgent                             *)
(*   agents/embedder.py          EmbedderAgent                             *)
(*   agents/indexer.py           IndexerAgent.build_index                  *)
(*   workflows/scanner_graph.py  the LangGraph workflow                    *)
(* Each component has its own specification (SpecMeta, SpecStore,          *)
(* SpecChunk, SpecFlow) over the shared variables; a specification leaves  *)
(* the variables of the other components at their idle values.             *)
(***************************************************************************)
EXTENDS Integers, Sequences, FiniteSets, TLC

\* ------------------------------------------------------------------------
\* Bounds of the model
\* ------------------------------------------------------------------------
NumPaths == 3
NumDigests == 2
MaxRuns == 2
MaxAdds == 2
MaxK == 2
NumValues == 2
MaxDim == 2
MaxCoord == 1
MaxRestarts == 1
MaxLines == 3
MaxComponents == 2
MaxChunkSize == 2
MaxOverlap == 1
MaxFiles == 3
MaxBatchSize == 2
MaxEntries == 2
MaxContent == 4
MaxText == 3
MaxMatches == 1
MaxParsed == 2
NumBuilds == 2
MaxRunAdds == 2

\* Python's None: get_file() of a path without a row, and a path that is
\* not a key of a dict.
None == 0

\* None where the other values are objects.
NoObject == <<>>

Paths == 1..NumPaths
Digests == 1..NumDigests

VARIABLES
    files,          \* metadata.db, table files: path -> sha256_hash (None: no row)
    current_hashes, \* argument of the last get_changed_files call
    changed,        \* list returned by the last get_changed_files call
    runPos,         \* number of entries of current_hashes the run has stored
    runPhase,       \* "idle" | "storing"
    lastRun,        \* digest map of the last run that stored all its files
    runs,           \* number of runs started
    dimension,      \* config.embedding.dimensions
    index,          \* FAISSVectorStore.index: the vectors of the flat index
    chunk_data,     \* FAISSVectorStore.chunk_data
    disk_index,     \* persist_directory/index.faiss
    disk_chunk_data,\* persist_directory/metadata.pkl
    qvec,           \* arguments of the last query call (qk = 0: none yet)
    qk,
    qfilters,
    results,        \* list returned by the last query call
    addCalls,       \* number of add calls made
    addedVecs,      \* vectors passed to add by the running process
    durable,        \* vectors whose add was followed by persist()
    restarts,       \* number of times a new store was constructed over the directory
    lines,          \* file_content.splitlines(): the length of each line
    components,     \* parsed_file.components: start_line and end_line of each
    chunk_size,     \* config.chunking.chunk_size
    chunk_overlap,  \* config.chunking.chunk_overlap
    use_ast_chunking, \* config.chunking.use_ast_chunking
    chunks,         \* list returned by ChunkerAgent.chunk
    chunkPhase,     \* "source" | "input" | "chunked" | "fallback"
    parsers_available, \* ParserAgent.parsers_available
    declared,       \* 0-based line of the start of each component pattern match
    parsed,         \* parsed_file is the result of ParserAgent.parse
    pc,             \* the node of the workflow that runs next
    redact_secrets, \* config.security.redact_secrets
    batch_size,     \* config.embedding.batch_size
    embedder_available, \* EmbedderAgent.embedder is not None
    provider_dim,   \* length of the vectors the embedding model returns
    file_inventory, \* ScannerState.file_inventory: number of files (None before the scan)
    emitted,        \* all_chunks returned by parser_chunker_node
    state_chunks,   \* ScannerState.chunks
    state_embeddings, \* ScannerState.embeddings
    provider_texts, \* texts passed to embedder.embed_documents
    failed_batches, \* indices of the batches on which the provider raised
    vector_index,   \* ScannerState.vector_index
    scan_logs,      \* output_dir/scan_logs.json
    store_outcome,  \* how build_index's use of the store went ("none" before it)
    prior_disk,     \* the persist directory as the run found it
    gitignore_matcher, \* FileWalkerAgent.gitignore_matcher is not None
    root_exists,    \* config.project_root exists
    entry,          \* the entry root.rglob('*') yielded last (None before the first)
    entries_seen,   \* number of entries the walk has yielded
    inv_files,      \* files of scan()
    inv_errors,     \* errors of scan()
    walkPhase,      \* "walking" | "returned" | "raised"
    inventory,      \* the FileInventory scan() returned (None before it returns)
    redact_patterns,\* config.security.redact_patterns
    original_content, \* chunk.content of the chunk given to redact
    redacted_content, \* content of the chunk redact returned
    redactPhase,    \* "input" | "redacted" | "redacted_twice"
    given_chunk,    \* the CodeChunk object passed to redact (None outside it)
    returned_chunk, \* the CodeChunk redact returned for it
    returned_again, \* the CodeChunk redact returned for returned_chunk
    source,         \* file_path and content given to ParserAgent.parse, by what the passes find in them
    parser_raises,  \* parser.parse(bytes(content, "utf8")) raises
    parsed_file,    \* the ParsedFile ParserAgent.parse returned (None before)
    parsePhase,     \* "source" | "parsed"
    parsed_files,   \* ScannerState.parsed_files: the ParsedFile list given to the summarizer and the indexer
    llm,            \* what SummarizerAgent.llm does on each file: "absent" | "ok" | "raises"
    summaries,      \* ScannerState.summaries: the dict generate_summaries returned, in a list
    hash_order,     \* order in which the sets of the running process iterate
    manifests,      \* the Manifest of each build so far
    stages,         \* the nodes of the workflow that have run, in order
    state_logs,     \* ScannerState.logs
    state_manifest, \* ScannerState.manifest: <<>> for None, <<m>> for the Manifest m
    backend_adds,   \* number of add calls made on both backends
    faiss_store,    \* FAISSVectorStore: index and chunk_data after the add calls
    collection,     \* ChromaVectorStore.collection: the entries of the Chroma collection
    backend_query,  \* the query made on both backends (<<>> before it)
    faiss_results,  \* what FAISSVectorStore.query returned for it
    chroma_results, \* what ChromaVectorStore.query returned for it
    store_backend,  \* config.vector_store.backend of the two concurrent runs
    run_pc,         \* where each of the two runs is in build_index
    run_added,      \* number of add calls each run has made
    dir_collection, \* persist directory: the Chroma collection, by the run that added each entry
    dir_index,      \* persist directory: index.faiss, by the run that wrote it and its size (<<>>: no file)
    dir_metadata    \* persist directory: metadata.pkl, by the run that wrote it and its size (<<>>: no file)

metaVars == <<files, current_hashes, changed, runPos, runPhase, lastRun, runs>>

storeVars == <<dimension, index, chunk_data, disk_index, disk_chunk_data, qvec, qk, qfilters, results, addCalls, addedVecs,
               durable, restarts>>

chunkVars == <<lines, components, chunk_size, chunk_overlap, use_ast_chunking,
               chunks, chunkPhase, parsers_available, declared, parsed>>

flowVars == <<pc, redact_secrets, batch_size, embedder_available, provider_dim,
              file_inventory, emitted, state_chunks, state_embeddings,
              provider_texts, failed_batches, vector_index, scan_logs,
              store_outcome, prior_disk>>

walkVars == <<gitignore_matcher, root_exists, entry, entries_seen, inv_files,
              inv_errors, walkPhase, inventory>>

redactVars == <<redact_patterns, original_content, redacted_content, redactPhase>>

objectVars == <<given_chunk, returned_chunk, returned_again>>

parseVars == <<source, parser_raises, parsed_file, parsePhase>>

manifestVars == <<parsed_files, llm, summaries, hash_order, manifests>>

runVars == <<stages, state_logs, state_manifest>>

backendVars == <<backend_adds, faiss_store, collection, backend_query,
                 faiss_results, chroma_results>>

dirVars == <<store_backend, run_pc, run_added, dir_collection, dir_index,
             dir_metadata>>

vars == <<metaVars, storeVars, chunkVars, flowVars, walkVars, redactVars,
          objectVars, parseVars, manifestVars, runVars, backendVars, dirVars>>

notMeta == <<storeVars, chunkVars, flowVars, walkVars, redactVars, objectVars, parseVars, manifestVars, runVars, backendVars, dirVars>>
notStore == <<metaVars, chunkVars, flowVars, walkVars, redactVars, objectVars, parseVars, manifestVars, runVars, backendVars, dirVars>>
notChunk == <<metaVars, storeVars, flowVars, walkVars, redactVars, objectVars, parseVars, manifestVars, runVars, backendVars, dirVars>>
notFlowStore == <<metaVars, chunkVars, walkVars, redactVars, objectVars, parseVars, manifestVars, backendVars, dirVars>>
notWalk == <<metaVars, storeVars, chunkVars, flowVars, redactVars, objectVars, parseVars, manifestVars, runVars, backendVars, dirVars>>
notRedact == <<metaVars, storeVars, chunkVars, walkVars, parseVars, manifestVars, runVars, backendVars, dirVars>>
notParse == <<metaVars, storeVars, chunkVars, flowVars, walkVars, redactVars, objectVars, manifestVars, runVars, backendVars, dirVars>>
notManifest == <<metaVars, storeVars, chunkVars, flowVars, walkVars, redactVars, objectVars, parseVars, runVars, backendVars, dirVars>>
notBackends == <<metaVars, storeVars, chunkVars, flowVars, walkVars, redactVars, objectVars, parseVars, manifestVars, runVars, dirVars>>
notDir == <<metaVars, storeVars, chunkVars, flowVars, walkVars, redactVars, objectVars, parseVars, manifestVars, runVars, backendVars>>

\* ------------------------------------------------------------------------
\* storage/metadata_store.py
\* ------------------------------------------------------------------------

\* A digest map Dict[str, str]: None marks a path that is not a key.
DigestMaps == [Paths -> Digests \cup {None}]

EmptyMap == [p \in Paths |-> None]

MetaIdle ==
    /\ files = EmptyMap
    /\ current_hashes = EmptyMap
    /\ changed = <<>>
    /\ runPos = 0
    /\ runPhase = "idle"
    /\ lastRun = EmptyMap
    /\ runs = 0

\* No filters / no metadata value under a key.
MetaKeys == {"language", "chunk_type"}
Values == 1..NumValues
NoFilters == [key \in MetaKeys |-> None]

\* No store object has been used yet.
StoreUnopened ==
    /\ index = <<>>
    /\ chunk_data = <<>>
    /\ qvec = <<>>
    /\ qk = 0
    /\ qfilters = NoFilters
    /\ results = <<>>
    /\ addCalls = 0
    /\ addedVecs = {}
    /\ durable = {}
    /\ restarts = 0

StoreEmpty ==
    /\ StoreUnopened
    /\ disk_index = <<>>
    /\ disk_chunk_data = <<>>

StoreIdle == dimension = 1 /\ StoreEmpty

\* The workflow has not started.
FlowNotStarted ==
    /\ pc = "START"
    /\ batch_size = 1
    /\ embedder_available = TRUE
    /\ provider_dim = 1
    /\ file_inventory = NoObject
    /\ emitted = <<>>
    /\ state_chunks = <<>>
    /\ state_embeddings = <<>>
    /\ provider_texts = <<>>
    /\ failed_batches = {}
    /\ vector_index = NoObject
    /\ scan_logs = NoObject
    /\ store_outcome = "none"
    /\ prior_disk = [index |-> <<>>, chunk_data |-> <<>>]

FlowIdle == redact_secrets = TRUE /\ FlowNotStarted

\* The redact patterns of SecurityConfig, in the order of the list.
DefaultPatterns == <<"assignment", "bearer", "sk", "ghp">>

\* No chunk object has been passed to redact.
NoChunkGiven ==
    /\ given_chunk = None
    /\ returned_chunk = None
    /\ returned_again = None

RedactIdle ==
    /\ redact_patterns = DefaultPatterns
    /\ original_content = <<>>
    /\ redacted_content = <<>>
    /\ redactPhase = "input"
    /\ NoChunkGiven

WalkIdle ==
    /\ gitignore_matcher = FALSE
    /\ root_exists = TRUE
    /\ entry = None
    /\ entries_seen = 0
    /\ inv_files = <<>>
    /\ inv_errors = <<>>
    /\ walkPhase = "walking"
    /\ inventory = None

ChunkIdle ==
    /\ lines = <<>>
    /\ components = <<>>
    /\ chunk_size = 1
    /\ chunk_overlap = 0
    /\ use_ast_chunking = FALSE
    /\ chunks = <<>>
    /\ chunkPhase = "input"
    /\ parsers_available = FALSE
    /\ declared = <<>>
    /\ parsed = FALSE

\* ParserAgent.parse has not been given a file.
ParseIdle ==
    /\ source = None
    /\ parser_raises = FALSE
    /\ parsed_file = None
    /\ parsePhase = "source"

\* workflow.invoke({... "manifest": None, "logs": []}) has not run a node.
RunIdle ==
    /\ stages = <<>>
    /\ state_logs = <<>>
    /\ state_manifest = <<>>

\* Neither backend has been given a call.
BackendsIdle ==
    /\ backend_adds = 0
    /\ faiss_store = [index |-> <<>>, chunk_data |-> <<>>]
    /\ collection = <<>>
    /\ backend_query = <<>>
    /\ faiss_results = <<>>
    /\ chroma_results = <<>>

\* An empty persist directory and two runs that have not reached build_index.
DirIdle ==
    /\ store_backend = "chroma"
    /\ run_pc = [r \in 1..2 |-> "start"]
    /\ run_added = [r \in 1..2 |-> 0]
    /\ dir_collection = <<>>
    /\ dir_index = <<>>
    /\ dir_metadata = <<>>

\* No summary and no manifest has been built.
ManifestIdle ==
    /\ parsed_files = <<>>
    /\ llm = <<>>
    /\ summaries = <<>>
    /\ hash_order = "forward"
    /\ manifests = <<>>

\* The keys of a dict, in iteration order (ascending path).
RECURSIVE KeysFrom(_, _)
KeysFrom(m, p) ==
    IF p > NumPaths THEN <<>>
    ELSE (IF m[p] # None THEN <<p>> ELSE <<>>) \o KeysFrom(m, p + 1)

Keys(m) == KeysFrom(m, 1)

Range(s) == {s[i] : i \in 1..Len(s)}

\* MetadataStore.get_file: the stored row's sha256_hash, None without a row.
get_file(tbl, path) == tbl[path]

\* The test of get_changed_files on one path.
IsChangedMissingRowIgnored(tbl, path, new_hash) ==
    get_file(tbl, path) # None /\ get_file(tbl, path) # new_hash

IsChanged(tbl, path, new_hash) ==
    get_file(tbl, path) = None \/ get_file(tbl, path) # new_hash

\* MetadataStore.get_changed_files: loop over current_hashes.items().
RECURSIVE ChangedFrom(_, _, _)
ChangedFrom(tbl, cur, ks) ==
    IF ks = <<>> THEN <<>>
    ELSE (IF IsChanged(tbl, Head(ks), cur[Head(ks)]) THEN <<Head(ks)>> ELSE <<>>)
         \o ChangedFrom(tbl, cur, Tail(ks))

get_changed_files(tbl, cur) == ChangedFrom(tbl, cur, Keys(cur))

\* MetadataStore.store_file: INSERT OR REPLACE of one row, then commit.
store_file(tbl, path, hash) == [tbl EXCEPT ![path] = hash]

\* A run starts by diffing its fresh digest set against the table.
GetChangedFiles(cur) ==
    /\ runPhase = "idle"
    /\ runs < MaxRuns
    /\ current_hashes' = cur
    /\ changed' = get_changed_files(files, cur)
    /\ runPhase' = "storing"
    /\ runPos' = 0
    /\ runs' = runs + 1
    /\ UNCHANGED <<files, lastRun, notMeta>>

\* The run stores its next file; store_file commits at once.
StoreFile ==
    /\ runPhase = "storing"
    /\ runPos < Len(Keys(current_hashes))
    /\ LET p == Keys(current_hashes)[runPos + 1]
       IN files' = store_file(files, p, current_hashes[p])
    /\ runPos' = runPos + 1
    /\ UNCHANGED <<current_hashes, changed, runPhase, lastRun, runs, notMeta>>

\* The run has stored every file of its digest set.
EndRun ==
    /\ runPhase = "storing"
    /\ runPos = Len(Keys(current_hashes))
    /\ lastRun' = current_hashes
    /\ runPhase' = "idle"
    /\ UNCHANGED <<files, current_hashes, changed, runPos, runs, notMeta>>

\* The run crashes or is aborted; what was committed stays in the table.
CrashRun ==
    /\ runPhase = "storing"
    /\ runPos < Len(Keys(current_hashes))
    /\ runPhase' = "idle"
    /\ UNCHANGED <<files, current_hashes, changed, runPos, lastRun, runs, notMeta>>

InitMeta ==
    /\ DirIdle
    /\ BackendsIdle
    /\ RunIdle
    /\ ManifestIdle
    /\ ParseIdle
    /\ MetaIdle
    /\ StoreIdle
    /\ ChunkIdle
    /\ FlowIdle
    /\ WalkIdle
    /\ RedactIdle

NextMeta ==
    \/ \E cur \in DigestMaps : GetChangedFiles(cur)
    \/ StoreFile
    \/ EndRun
    \/ CrashRun

SpecMeta == InitMeta /\ [][NextMeta]_vars

\* ------------------------------------------------------------------------
\* Properties of the digest table (SpecMeta)
\* ------------------------------------------------------------------------

\* The state right after get_changed_files returned: the table is still the
\* one the diff was computed against.
JustDiffed == runPhase = "storing" /\ runPos = 0

\* C6: get_changed_files(current) returns exactly the paths of current
\* that have no stored row or whose stored digest differs from current[p],
\* each once; so a map equal to the table on all its keys diffs to the empty
\* list, and a map that differs from the table on exactly one key diffs to
\* exactly that path.
ChangedIsExactlyTheDifferingPaths ==
    JustDiffed =>
        /\ Range(changed) = {p \in Paths : current_hashes[p] # None
                                /\ files[p] # current_hashes[p]}
        /\ Len(changed) = Cardinality(Range(changed))
        /\ ((\A p \in Paths : current_hashes[p] # None => files[p] = current_hashes[p])
               => changed = <<>>)
        /\ \A q \in Paths :
              (/\ current_hashes[q] # None
               /\ files[q] # current_hashes[q]
               /\ \A p \in Paths \ {q} :
                      current_hashes[p] # None => files[p] = current_hashes[p])
              => changed = <<q>>

\* Witness of C6: a second scan of a stored three-file project in which
\* exactly one file's digest changed.
OneOfThreeChangedDiffed ==
    /\ JustDiffed
    /\ \A p \in Paths : current_hashes[p] # None /\ files[p] # None
    /\ lastRun = files
    /\ Len(changed) = 1
    /\ files[changed[1]] # current_hashes[changed[1]]

\* The paths the diff reports that are not paths of the current digest map:
\* the only way the returned list could report a deletion.
ReportedDeleted == {p \in Range(changed) : current_hashes[p] = None}

\* C7: the diff reports as deleted exactly the paths that have a stored
\* row but are absent from the current digest map.
DeletedPathsAreReported ==
    JustDiffed =>
        ReportedDeleted = {p \in Paths : files[p] # None /\ current_hashes[p] = None}

\* C8: at every point of a run the stored table is either the complete
\* digest set of the last successful run or the complete digest set of the
\* current run.
TableIsCommittedAtomically ==
    files = lastRun \/ files = current_hashes

\* ------------------------------------------------------------------------
\* storage/vector_store.py: FAISSVectorStore
\* ------------------------------------------------------------------------

Min(a, b) == IF a < b THEN a ELSE b

\* Embedding vectors of d coordinates: one non-zero coordinate each.
VecsOfDim(d) ==
    {v \in [1..d -> 0..MaxCoord] : Cardinality({i \in 1..d : v[i] # 0}) = 1}

\* Chunk metadata as the store sees it: a value under every metadata key.
Metadatas == [MetaKeys -> Values]

\* filters: None under a key that is not a key of the dict.
Filters == [MetaKeys -> Values \cup {None}]

RECURSIVE L2From(_, _, _)
L2From(u, v, i) ==
    IF i > Len(u) THEN 0
    ELSE (u[i] - v[i]) * (u[i] - v[i]) + L2From(u, v, i + 1)

\* faiss.IndexFlatL2: squared Euclidean distance.
L2Distance(u, v) == L2From(u, v, 1)

\* FAISSVectorStore.add: index.add raises on a vector whose length is not the
\* index dimension; add catches it, prints and returns without appending.
faiss_add(idx, cd, dim, chunk_id, embedding, content, metadata) ==
    IF Len(embedding) # dim
    THEN [index |-> idx, chunk_data |-> cd]
    ELSE [index |-> Append(idx, embedding),
          chunk_data |-> Append(cd, [chunk_id |-> chunk_id,
                                     content |-> content,
                                     metadata |-> metadata])]

\* index.search(query, n): the positions of n nearest vectors in ascending
\* distance; the order among equal distances is the library's choice.
faiss_search(idx, q, n) ==
    {o \in [1..n -> 1..Len(idx)] :
        /\ \A i, j \in 1..n : i < j =>
              /\ o[i] # o[j]
              /\ L2Distance(idx[o[i]], q) <= L2Distance(idx[o[j]], q)
        /\ \A x \in 1..Len(idx) :
              (\A i \in 1..n : o[i] # x) =>
                  L2Distance(idx[x], q) >= L2Distance(idx[o[n]], q)}

\* The filter loop of query: every key of filters must equal the entry's
\* metadata value; with no filters every entry matches.
FilterMatchFirstKeyOnly(metadata, filters) ==
    \/ filters = NoFilters
    \/ LET key == CHOOSE key \in MetaKeys : filters[key] # None
       IN metadata[key] = filters[key]

FilterMatch(metadata, filters) ==
    \A key \in MetaKeys : filters[key] # None => metadata[key] = filters[key]

\* The result loop of query over the positions returned by the search.
RECURSIVE QueryResults(_, _, _, _, _, _)
QueryResults(idx, cd, q, order, filters, i) ==
    IF i > Len(order) THEN <<>>
    ELSE (IF FilterMatch(cd[order[i]].metadata, filters)
          THEN <<[chunk_id |-> cd[order[i]].chunk_id,
                  content |-> cd[order[i]].content,
                  metadata |-> cd[order[i]].metadata,
                  distance |-> L2Distance(idx[order[i]], q)]>>
          ELSE <<>>)
         \o QueryResults(idx, cd, q, order, filters, i + 1)

\* FAISSVectorStore.query: the lists it can return.  A query vector of the
\* wrong length or a search for 0 neighbours raises inside faiss; query
\* catches it and returns [].
faiss_query(idx, cd, dim, q, k, filters) ==
    IF Len(q) # dim \/ Min(k, Len(cd)) = 0
    THEN {<<>>}
    ELSE {QueryResults(idx, cd, q, o, filters, 1) :
             o \in faiss_search(idx, q, Min(k, Len(cd)))}

\* add(chunk_id, embedding, content, metadata, provenance)
Add(v, metadata) ==
    /\ addCalls < MaxAdds
    /\ LET st == faiss_add(index, chunk_data, dimension, addCalls + 1, v,
                           "text", metadata)
       IN /\ index' = st.index
          /\ chunk_data' = st.chunk_data
    /\ addCalls' = addCalls + 1
    /\ addedVecs' = addedVecs \cup {v}
    /\ qk' = 0
    /\ qvec' = <<>>
    /\ qfilters' = NoFilters
    /\ results' = <<>>
    /\ UNCHANGED <<dimension, disk_index, disk_chunk_data, durable, restarts, notStore>>

\* persist(): write index.faiss and metadata.pkl.
Persist ==
    /\ disk_index' = index
    /\ disk_chunk_data' = chunk_data
    /\ durable' = durable \cup addedVecs
    /\ UNCHANGED <<dimension, index, chunk_data, qvec, qk, qfilters, results,
                   addCalls, addedVecs, restarts, notStore>>

\* Process restart: FAISSVectorStore(config) is constructed anew over the
\* same persist directory; __init__ creates an empty index and chunk_data.
Restart ==
    /\ restarts < MaxRestarts
    /\ index' = <<>>
    /\ chunk_data' = <<>>
    /\ addedVecs' = {}
    /\ restarts' = restarts + 1
    /\ qk' = 0
    /\ qvec' = <<>>
    /\ qfilters' = NoFilters
    /\ results' = <<>>
    /\ UNCHANGED <<dimension, disk_index, disk_chunk_data, addCalls, durable, notStore>>

\* query(query_embedding, k, filters).  The model keeps the last query only,
\* so a store is queried once between two changes of it.
Query(q, k, filters) ==
    /\ qk = 0
    /\ qvec' = q
    /\ qk' = k
    /\ qfilters' = filters
    /\ results' \in faiss_query(index, chunk_data, dimension, q, k, filters)
    /\ UNCHANGED <<dimension, index, chunk_data, disk_index, disk_chunk_data,
                   addCalls, addedVecs, durable, restarts, notStore>>

InitStore ==
    /\ DirIdle
    /\ BackendsIdle
    /\ RunIdle
    /\ ManifestIdle
    /\ ParseIdle
    /\ MetaIdle
    /\ RedactIdle
    /\ WalkIdle
    /\ ChunkIdle
    /\ FlowIdle
    /\ dimension \in 1..MaxDim
    /\ StoreEmpty

NextStore ==
    \/ \E v \in VecsOfDim(dimension), metadata \in Metadatas : Add(v, metadata)
    \/ Persist
    \/ Restart
    \/ \E q \in VecsOfDim(dimension), k \in 1..MaxK, filters \in Filters :
          Query(q, k, filters)

SpecStore == InitStore /\ [][NextStore]_vars

\* ------------------------------------------------------------------------
\* Properties of the vector store (SpecStore)
\* ------------------------------------------------------------------------

Queried == qk > 0

\* The positions of the stored entries that match the filters of the query.
Matching ==
    {i \in 1..Len(chunk_data) :
        \A key \in MetaKeys :
            qfilters[key] # None => chunk_data[i].metadata[key] = qfilters[key]}

\* The position of a returned entry (add calls number their chunk ids).
PosOf(r) == CHOOSE i \in 1..Len(chunk_data) : chunk_data[i].chunk_id = r.chunk_id

\* C3: after add followed by persist and a restart, a query for an added
\* vector with k >= 1 returns an entry at distance 0 as its top result.
AddedEntrySurvivesRestart ==
    (Queried /\ restarts > 0 /\ qfilters = NoFilters /\ qvec \in durable)
        => (results # <<>> /\ results[1].distance = 0)

\* C4: query filters before it ranks: it returns min(k, m) entries, all
\* of them among the m matching entries, in ascending distance, and no
\* matching entry that was left out is nearer than a returned one.
QueryFiltersThenRanks ==
    Queried =>
        /\ Len(results) = Min(qk, Cardinality(Matching))
        /\ \A i \in 1..Len(results) : PosOf(results[i]) \in Matching
        /\ \A i, j \in 1..Len(results) :
              i < j => results[i].distance <= results[j].distance
        /\ \A x \in Matching :
              (\A i \in 1..Len(results) : PosOf(results[i]) # x) =>
                  \A i \in 1..Len(results) :
                      L2Distance(index[x], qvec) >= results[i].distance

\* C5: query never returns an entry whose metadata differs from the
\* filter value on a filter key, and never more than k entries or more
\* entries than match.
QueryReturnsOnlyMatchingEntries ==
    Queried =>
        /\ \A i \in 1..Len(results) : \A key \in MetaKeys :
              qfilters[key] # None => results[i].metadata[key] = qfilters[key]
        /\ Len(results) <= Min(qk, Cardinality(Matching))
        /\ \A i, j \in 1..Len(results) : i # j => results[i].chunk_id # results[j].chunk_id

\* Witness of C5: a filtered query for k = 2 over a store holding a
\* matching and a non-matching entry returned the one matching entry.
FilteredQueryReturnedFewerThanK ==
    /\ Queried
    /\ qk = 2
    /\ Len(chunk_data) >= 2
    /\ \E key \in MetaKeys : qfilters[key] # None
    /\ Cardinality(Matching) = 1
    /\ Len(results) = 1

\* ------------------------------------------------------------------------
\* agents/filewalker.py: FileWalkerAgent
\* ------------------------------------------------------------------------

\* A path under the root, by what follows from the path alone: what the
\* ignore file says of it ("raises": the matcher raises on it), whether an
\* exclude pattern matches it, and its suffix ("none": no suffix,
\* "supported": in supported_extensions, "unsupported": any other).
WalkPaths(id) ==
    [id : {id},
     ignore : {"no_match", "match", "raises"},
     excluded : BOOLEAN,
     suffix : {"none", "supported", "unsupported"}]

\* An entry yielded by root.rglob('*'): size is what stat() gives ("ok": at
\* most max_file_size_mb, "oversize", "stat_fails", "stat_fails_later": the
\* stat of should_process succeeds and the one of scan raises); readable
\* tells whether open/read of compute_hash succeeds.  An entry that is not a
\* regular file is a directory.
Entries(id) ==
    [path : WalkPaths(id), is_file : {TRUE},
     size : {"ok", "oversize", "stat_fails", "stat_fails_later"},
     readable : BOOLEAN]
    \cup
    [path : WalkPaths(id), is_file : {FALSE}, size : {"ok"}, readable : {FALSE}]

\* FileWalkerAgent.should_process
should_process(e, matcher) ==
    IF ~e.is_file THEN FALSE
    ELSE IF matcher /\ e.path.ignore = "match" THEN FALSE
    ELSE IF e.path.excluded THEN FALSE
    ELSE IF e.size \in {"oversize", "stat_fails"} THEN FALSE
    ELSE IF e.path.suffix # "none" /\ e.path.suffix # "supported" THEN FALSE
    ELSE TRUE

\* FileWalkerAgent.compute_hash: the hex digest, "" when reading fails.
compute_hash(e) == IF e.readable THEN "sha256" ELSE ""

\* FileMetadata(...) of scan
FileMetadata(e) ==
    [path |-> e.path,
     extension |-> e.path.suffix,
     size_bytes |-> e.size,
     sha256_hash |-> compute_hash(e)]

\* scan(): project_root does not exist.
ScanRaise ==
    /\ walkPhase = "walking"
    /\ ~root_exists
    /\ walkPhase' = "raised"
    /\ UNCHANGED <<gitignore_matcher, root_exists, entry, entries_seen,
                   inv_files, inv_errors, inventory, notWalk>>

\* scan(): one iteration of the loop over root.rglob('*').
ScanEntry(e) ==
    /\ walkPhase = "walking"
    /\ root_exists
    /\ entries_seen < MaxEntries
    /\ entry' = e
    /\ entries_seen' = entries_seen + 1
    /\ IF ~e.is_file \/ ~should_process(e, gitignore_matcher)
       THEN UNCHANGED <<inv_files, inv_errors>>
       ELSE IF e.size = "stat_fails_later"
            THEN /\ inv_errors' = Append(inv_errors, [file |-> e.path])
                 /\ UNCHANGED inv_files
            ELSE /\ inv_files' = Append(inv_files, FileMetadata(e))
                 /\ UNCHANGED inv_errors
    /\ UNCHANGED <<gitignore_matcher, root_exists, walkPhase, inventory, notWalk>>

\* scan(): rglob raises during the walk; the error is recorded and the loop
\* ends.
ScanGlobalError ==
    /\ walkPhase = "walking"
    /\ root_exists
    /\ inv_errors' = Append(inv_errors, [scan |-> "global"])
    /\ inventory' = [total_files |-> Len(inv_files), files |-> inv_files,
                     errors |-> inv_errors']
    /\ walkPhase' = "returned"
    /\ UNCHANGED <<gitignore_matcher, root_exists, entry, entries_seen,
                   inv_files, notWalk>>

\* scan(): the walk is over and the inventory is returned.
ScanReturn ==
    /\ walkPhase = "walking"
    /\ root_exists
    /\ inventory' = [total_files |-> Len(inv_files), files |-> inv_files,
                     errors |-> inv_errors]
    /\ walkPhase' = "returned"
    /\ UNCHANGED <<gitignore_matcher, root_exists, entry, entries_seen,
                   inv_files, inv_errors, notWalk>>

InitWalk ==
    /\ DirIdle
    /\ BackendsIdle
    /\ RunIdle
    /\ ManifestIdle
    /\ ParseIdle
    /\ MetaIdle
    /\ RedactIdle
    /\ StoreIdle
    /\ FlowIdle
    /\ ChunkIdle
    /\ gitignore_matcher \in BOOLEAN
    /\ root_exists \in BOOLEAN
    /\ entry = None
    /\ entries_seen = 0
    /\ inv_files = <<>>
    /\ inv_errors = <<>>
    /\ walkPhase = "walking"
    /\ inventory = None

NextWalk ==
    \/ ScanRaise
    \/ \E e \in Entries(entries_seen + 1) : ScanEntry(e)
    \/ ScanGlobalError
    \/ ScanReturn

SpecWalk == InitWalk /\ [][NextWalk]_vars

\* ------------------------------------------------------------------------
\* Properties of the file walk (SpecWalk)
\* ------------------------------------------------------------------------

\* The entry the walk yielded last was put into files.
EntryListed ==
    /\ entry # None
    /\ inv_files # <<>>
    /\ inv_files[Len(inv_files)].path.id = entry.path.id

\* The entry the walk yielded last has an error entry.
EntryInErrors ==
    /\ entry # None
    /\ \E i \in 1..Len(inv_errors) : inv_errors[i] = [file |-> entry.path]

\* C12: every file in the inventory passes all filters (not matched by
\* the ignore file, no exclude pattern matches, not oversize, extension in
\* supported_extensions), and an entry that is not a regular file or fails
\* one of the filters is absent from the inventory.
InventoryHoldsOnlyFilesPassingAllFilters ==
    /\ \A i \in 1..Len(inv_files) :
          /\ inv_files[i].path.ignore # "match"
          /\ ~inv_files[i].path.excluded
          /\ inv_files[i].size_bytes # "oversize"
          /\ inv_files[i].extension = "supported"
    /\ (entry # None /\ (\/ ~entry.is_file
                         \/ entry.path.ignore = "match"
                         \/ entry.path.excluded
                         \/ entry.size = "oversize"
                         \/ entry.path.suffix # "supported"))
          => ~EntryListed

\* C13: when reading a qualifying file for its digest fails, the file has
\* an entry in errors and no record in files, and no record of files has an
\* empty digest.
UnreadableFileIsRecordedAsError ==
    /\ \A i \in 1..Len(inv_files) : inv_files[i].sha256_hash # ""
    /\ (entry # None /\ should_process(entry, gitignore_matcher)
          /\ entry.size = "ok" /\ ~entry.readable)
          => (EntryInErrors /\ ~EntryListed)

\* ------------------------------------------------------------------------
\* agents/chunker.py: ChunkerAgent
\* ------------------------------------------------------------------------

\* A line is modelled by its number of characters; a negative number is a
\* whitespace-only line of that many characters.
LineLens == {0, 3, 4, 8, -4}

\* len(line)
CharLen(line) == IF line < 0 THEN -line ELSE line

\* lines_per_chunk of _chunk_by_lines.
LinesPerChunk == 50

RECURSIVE SumSeq(_)
SumSeq(s) == IF s = <<>> THEN 0 ELSE CharLen(Head(s)) + SumSeq(Tail(s))

\* len("\n".join(ls))
JoinLen(ls) == IF ls = <<>> THEN 0 ELSE SumSeq(ls) + Len(ls) - 1

\* "\n".join(ls).strip() is non-empty
HasText(ls) == \E i \in 1..Len(ls) : ls[i] > 0

\* ChunkerAgent.count_tokens, by the length of the text: len(text) // 4.
count_tokens(n) == n \div 4

\* lines[a:b] as it would be without its last line, lines[a:b-1].
SliceWithoutLastLine(ls, a, b) == SubSeq(ls, a + 1, b - 1)

\* lines[a:b] of a Python list (0-based, b exclusive)
Slice(ls, a, b) == SubSeq(ls, a + 1, b)

\* _get_overlap_lines: the number of trailing lines taken as overlap
\* (the loop over reversed(lines), stopping at the first line that does not
\* fit).
RECURSIVE OverlapCount(_, _, _, _)
OverlapCount(ls, overlap_tokens, n, tokens) ==
    IF n = Len(ls) THEN n
    ELSE LET line_tokens == count_tokens(CharLen(ls[Len(ls) - n]))
         IN IF tokens + line_tokens > overlap_tokens THEN n
            ELSE OverlapCount(ls, overlap_tokens, n + 1, tokens + line_tokens)

get_overlap_lines(ls, overlap_tokens) ==
    SubSeq(ls, Len(ls) - OverlapCount(ls, overlap_tokens, 0, 0) + 1, Len(ls))

\* A CodeChunk: chunk_id is <<strategy tag, sequence index>> of the file.
CodeChunk(tag, seq, content, start_line, end_line, token_count, chunk_type, split) ==
    [chunk_id |-> <<tag, seq>>,
     content |-> content,
     start_line |-> start_line,
     end_line |-> end_line,
     token_count |-> token_count,
     chunk_type |-> chunk_type,
     split |-> split]

\* The flush condition of the line loops: the line does not fit into the
\* chunk being built, and that chunk is not empty.
MustFlush(current_tokens, line_tokens, size, current_chunk) ==
    current_tokens + line_tokens > size /\ current_chunk # <<>>

\* _chunk_by_tokens, the loop over enumerate(lines) from line index i.
RECURSIVE TokensLoop(_, _, _, _, _)
TokensLoop(ls, size, overlap, i, st) ==
    IF i = Len(ls) THEN st
    ELSE LET line == ls[i + 1]
             line_tokens == count_tokens(CharLen(line))
         IN IF MustFlush(st.current_tokens, line_tokens, size, st.current_chunk)
            THEN LET overlap_lines == get_overlap_lines(st.current_chunk, overlap)
                     next_chunk == overlap_lines \o <<line>>
                 IN TokensLoop(ls, size, overlap, i + 1,
                      [chunks |->
                           IF HasText(st.current_chunk)
                           THEN Append(st.chunks,
                                  CodeChunk("token", st.chunk_idx, st.current_chunk,
                                            st.chunk_start_line, i,
                                            st.current_tokens, "text", FALSE))
                           ELSE st.chunks,
                       current_chunk |-> next_chunk,
                       current_tokens |-> count_tokens(JoinLen(next_chunk)),
                       chunk_start_line |-> i - Len(overlap_lines),
                       chunk_idx |-> st.chunk_idx + 1])
            ELSE TokensLoop(ls, size, overlap, i + 1,
                      [st EXCEPT !.current_chunk = Append(@, line),
                                 !.current_tokens = @ + line_tokens])

\* _chunk_by_tokens
chunk_by_tokens(ls, size, overlap) ==
    IF ls = <<>> THEN <<>>
    ELSE LET st == TokensLoop(ls, size, overlap, 0,
                      [chunks |-> <<>>, current_chunk |-> <<>>,
                       current_tokens |-> 0, chunk_start_line |-> 0,
                       chunk_idx |-> 0])
         IN IF st.current_chunk # <<>> /\ HasText(st.current_chunk)
            THEN Append(st.chunks,
                   CodeChunk("token", st.chunk_idx, st.current_chunk,
                             st.chunk_start_line, Len(ls),
                             st.current_tokens, "text", FALSE))
            ELSE st.chunks

\* _split_large_chunk, the loop over enumerate(lines) from line index i.
RECURSIVE SplitLoop(_, _, _, _, _)
SplitLoop(ls, size, start_line, i, st) ==
    IF i = Len(ls) THEN st
    ELSE LET line == ls[i + 1]
             line_tokens == count_tokens(CharLen(line))
         IN IF MustFlush(st.current_tokens, line_tokens, size, st.current_chunk)
            THEN SplitLoop(ls, size, start_line, i + 1,
                      [chunks |->
                           IF HasText(st.current_chunk)
                           THEN Append(st.chunks,
                                  CodeChunk("component-split", Len(st.chunks),
                                            st.current_chunk,
                                            start_line + st.chunk_start,
                                            start_line + i,
                                            st.current_tokens, "component", TRUE))
                           ELSE st.chunks,
                       current_chunk |-> <<line>>,
                       current_tokens |-> line_tokens,
                       chunk_start |-> i])
            ELSE SplitLoop(ls, size, start_line, i + 1,
                      [st EXCEPT !.current_chunk = Append(@, line),
                                 !.current_tokens = @ + line_tokens])

\* "\n".join(ls).splitlines(): a text that ends with a line break has no
\* last empty line, so one trailing empty line of ls is lost.
JoinedSplitlines(ls) ==
    IF ls # <<>> /\ ls[Len(ls)] = 0 THEN SubSeq(ls, 1, Len(ls) - 1) ELSE ls

\* _split_large_chunk(content, ...), content being "\n".join(chunk_lines)
split_large_chunk(chunk_lines, size, start_line) ==
    LET content == JoinedSplitlines(chunk_lines)
        st == SplitLoop(content, size, start_line, 0,
                  [chunks |-> <<>>, current_chunk |-> <<>>,
                   current_tokens |-> 0, chunk_start |-> 0])
    IN IF st.current_chunk # <<>> /\ HasText(st.current_chunk)
       THEN Append(st.chunks,
              CodeChunk("component-split", Len(st.chunks), st.current_chunk,
                        start_line + st.chunk_start, start_line + Len(content),
                        st.current_tokens, "component", TRUE))
       ELSE st.chunks

Max(a, b) == IF a > b THEN a ELSE b

\* _chunk_by_components, the loop over enumerate(components) from index i.
RECURSIVE ComponentsLoop(_, _, _, _)
ComponentsLoop(ls, comps, size, i) ==
    IF i = Len(comps) THEN <<>>
    ELSE LET component == comps[i + 1]
             start_line == Max(0, component.start_line)
             end_line == Min(Len(ls), component.end_line + 1)
             chunk_content == Slice(ls, start_line, end_line)
             token_count == count_tokens(JoinLen(chunk_content))
         IN (IF start_line >= end_line \/ ~HasText(chunk_content)
             THEN <<>>
             ELSE IF token_count > size
                  THEN split_large_chunk(chunk_content, size, start_line)
                  ELSE <<CodeChunk("component", i, chunk_content, start_line,
                                   end_line, token_count, "component", FALSE)>>)
            \o ComponentsLoop(ls, comps, size, i + 1)

\* _chunk_by_components
chunk_by_components(ls, comps, size) ==
    IF ls = <<>> THEN <<>> ELSE ComponentsLoop(ls, comps, size, 0)

\* _chunk_by_lines, the loop over range(0, len(lines), lines_per_chunk).
RECURSIVE LinesLoop(_, _)
LinesLoop(ls, i) ==
    IF i >= Len(ls) THEN <<>>
    ELSE LET chunk_lines == Slice(ls, i, Min(Len(ls), i + LinesPerChunk))
         IN (IF HasText(chunk_lines)
             THEN <<CodeChunk("lines", i, chunk_lines, i, i + Len(chunk_lines),
                              count_tokens(JoinLen(chunk_lines)), "text", FALSE)>>
             ELSE <<>>)
            \o LinesLoop(ls, i + LinesPerChunk)

chunk_by_lines(ls) == LinesLoop(ls, 0)

\* ChunkerAgent.chunk when the selected strategy returns.
chunk(ls, comps, size, overlap, use_ast) ==
    IF ~HasText(ls) THEN <<>>
    ELSE IF use_ast /\ comps # <<>>
         THEN chunk_by_components(ls, comps, size)
         ELSE chunk_by_tokens(ls, size, overlap)

\* ChunkerAgent.chunk when the selected strategy raises.
chunk_fallback(ls) ==
    IF ~HasText(ls) THEN <<>> ELSE chunk_by_lines(ls)

Files == UNION {[1..n -> LineLens] : n \in 0..MaxLines}

\* ComponentMetadata.start_line / end_line of the components of a file of n lines.
Spans(n) ==
    {[start_line |-> a, end_line |-> b] : a \in 0..n, b \in 0..n} \cap
    {sp \in [start_line : 0..n, end_line : 0..n] : sp.start_line <= sp.end_line}

ComponentLists(n) == UNION {[1..m -> Spans(n)] : m \in 0..MaxComponents}

\* The shortest line on which a match of a component pattern can start
\* ("const", the patterns' \s+ matching the line break after it).
MinDeclLen == Len(<<"c", "o", "n", "s", "t">>)

\* The components ParserAgent keeps of a file.
MaxParsedComponents == 20

\* The lines of ls (0-based) on which a match of a component pattern can start.
DeclLines(ls) == {i \in 0..(Len(ls) - 1) : ls[i + 1] >= MinDeclLen}

\* The matches of the component patterns in a file, in the order
\* _extract_components finds them (pattern by pattern), by their lines.
Declarations(ls) == UNION {[1..m -> DeclLines(ls)] : m \in 0..MaxComponents}

\* ParserAgent._extract_components: start_line = end_line = line_num, the
\* 1-based number of the line on which the match starts.
RECURSIVE extract_components(_)
extract_components(decl) ==
    IF decl = <<>> THEN <<>>
    ELSE LET line_num == Head(decl) + 1
             rest == extract_components(Tail(decl))
         IN SubSeq(<<[start_line |-> line_num, end_line |-> line_num]>> \o rest,
                   1, Min(MaxParsedComponents, 1 + Len(rest)))

\* ParserAgent.parse: the components of the ParsedFile; none without
\* tree-sitter.
parse(decl, available) ==
    IF available THEN extract_components(decl) ELSE <<>>

\* parser.parse(file_meta.path, content)
Parse ==
    /\ chunkPhase = "source"
    /\ components' = parse(declared, parsers_available)
    /\ parsed' = TRUE
    /\ chunkPhase' = "input"
    /\ UNCHANGED <<lines, chunk_size, chunk_overlap, use_ast_chunking, chunks,
                   parsers_available, declared, notChunk>>

\* chunk(parsed_file, file_content): the strategy returns.
Chunk ==
    /\ chunkPhase = "input"
    /\ chunks' = chunk(lines, components, chunk_size, chunk_overlap, use_ast_chunking)
    /\ chunkPhase' = "chunked"
    /\ UNCHANGED <<lines, components, chunk_size, chunk_overlap, use_ast_chunking,
                   parsers_available, declared, parsed, notChunk>>

\* chunk(parsed_file, file_content): the strategy raises and chunk falls
\* back to _chunk_by_lines.
ChunkFallback ==
    /\ chunkPhase = "input"
    /\ HasText(lines)
    /\ chunks' = chunk_fallback(lines)
    /\ chunkPhase' = "fallback"
    /\ UNCHANGED <<lines, components, chunk_size, chunk_overlap, use_ast_chunking,
                   parsers_available, declared, parsed, notChunk>>

\* The chunker is given a ParsedFile (parsed_file.components is read only
\* with use_ast_chunking on), or a file that ParserAgent parses first.
InitChunk ==
    /\ DirIdle
    /\ BackendsIdle
    /\ RunIdle
    /\ ManifestIdle
    /\ ParseIdle
    /\ MetaIdle
    /\ RedactIdle
    /\ WalkIdle
    /\ StoreIdle
    /\ FlowIdle
    /\ lines \in Files
    /\ use_ast_chunking \in BOOLEAN
    /\ components \in ComponentLists(Len(lines))
    /\ (~use_ast_chunking => components = <<>>)
    /\ chunk_size \in 1..MaxChunkSize
    /\ chunk_overlap \in 0..MaxOverlap
    /\ chunks = <<>>
    /\ parsed = FALSE
    /\ \/ /\ chunkPhase = "input"
          /\ parsers_available = FALSE
          /\ declared = <<>>
       \/ /\ chunkPhase = "source"
          /\ components = <<>>
          /\ parsers_available \in BOOLEAN
          /\ declared \in Declarations(lines)

NextChunk ==
    \/ Parse
    \/ Chunk
    \/ ChunkFallback

SpecChunk == InitChunk /\ [][NextChunk]_vars

\* ------------------------------------------------------------------------
\* Properties of the chunker (SpecChunk)
\* ------------------------------------------------------------------------

\* C2: every chunk emitted by chunk() has an estimated token count
\* (token_count) of at most chunk_size.
ChunksFitTheTokenBudget ==
    chunkPhase # "input" =>
        \A i \in 1..Len(chunks) : chunks[i].token_count <= chunk_size

\* chunk() has returned the chunks of the structural strategy for a file
\* that ParserAgent parsed.
StructuralChunksOfParsedFile ==
    /\ chunkPhase = "chunked"
    /\ parsed
    /\ use_ast_chunking
    /\ components # <<>>

\* C14: with the structural strategy, each component the parser found
\* has a chunk, or a run of split sub-chunks, whose line range
\* [start_line, end_line) contains the line of its declaration.
EveryComponentHasAChunkCoveringItsDeclaration ==
    StructuralChunksOfParsedFile =>
        \A c \in 1..Min(Len(declared), MaxParsedComponents) :
            \E i \in 1..Len(chunks) :
                /\ chunks[i].start_line <= declared[c]
                /\ declared[c] < chunks[i].end_line

\* C15: for a file with text, parsed by ParserAgent and chunked with
\* use_ast_chunking on (the default), chunk() returns at least one chunk,
\* and every chunk has text and a token_count above 0.
ParsedFileWithTextHasChunks ==
    (chunkPhase = "chunked" /\ parsed /\ use_ast_chunking /\ HasText(lines)) =>
        /\ Len(chunks) >= 1
        /\ \A i \in 1..Len(chunks) :
              /\ HasText(chunks[i].content)
              /\ chunks[i].token_count > 0

\* chunk() has returned the chunks of the windowed strategy for a file
\* with text.
WindowedChunks ==
    /\ chunkPhase = "chunked"
    /\ ~(use_ast_chunking /\ components # <<>>)
    /\ HasText(lines)

\* C16: with the windowed strategy every line index 0..N-1 of the file
\* lies in the range [start_line, end_line) of an emitted chunk.
WindowedChunksCoverEveryLine ==
    WindowedChunks =>
        \A l \in 0..(Len(lines) - 1) :
            \E i \in 1..Len(chunks) :
                chunks[i].start_line <= l /\ l < chunks[i].end_line

\* C17: every chunk emitted by chunk(), under any strategy, has
\* 0 <= start_line < end_line <= N for the N lines of the file, and its
\* content is the file's lines start_line..end_line-1.
ChunksAreSlicesOfTheFile ==
    chunkPhase \in {"chunked", "fallback"} =>
        \A i \in 1..Len(chunks) :
            /\ 0 <= chunks[i].start_line
            /\ chunks[i].start_line < chunks[i].end_line
            /\ chunks[i].end_line <= Len(lines)
            /\ chunks[i].content = SubSeq(lines, chunks[i].start_line + 1,
                                          chunks[i].end_line)

\* Witness of C17: an oversized component that does not start at the top
\* of the file was split into two sub-chunks, one after the other.
OversizedComponentSplitInTwo ==
    /\ chunkPhase = "chunked"
    /\ \E i, j \in 1..Len(chunks) :
          /\ chunks[i].split /\ chunks[j].split
          /\ chunks[i].start_line >= 1
          /\ chunks[j].start_line = chunks[i].end_line

\* C18: among the chunks chunk() emits for a file, the sequence indices
\* of the chunks of one strategy tag are strictly increasing in emission
\* order, so no two chunks have the same chunk_id.
SequenceIndicesIncreaseWithinATag ==
    chunkPhase \in {"chunked", "fallback"} =>
        \A i, j \in 1..Len(chunks) :
            (i < j /\ chunks[i].chunk_id[1] = chunks[j].chunk_id[1])
                => chunks[i].chunk_id[2] < chunks[j].chunk_id[2]

\* The sum of the per-line token estimates of the last n lines of ls.
RECURSIVE SuffixTokens(_, _)
SuffixTokens(ls, n) ==
    IF n = 0 THEN 0
    ELSE LET len == IF ls[Len(ls) - n + 1] < 0 THEN -ls[Len(ls) - n + 1]
                    ELSE ls[Len(ls) - n + 1]
         IN (len \div 4) + SuffixTokens(ls, n - 1)

\* The length of the longest suffix of ls whose per-line token estimates
\* sum to at most overlap.
LongestSuffixWithin(ls, overlap) ==
    CHOOSE n \in 0..Len(ls) :
        /\ SuffixTokens(ls, n) <= overlap
        /\ \A m \in 0..Len(ls) : SuffixTokens(ls, m) <= overlap => m <= n

\* C19: with the windowed strategy, a chunk B emitted right after a chunk
\* A starts with the trailing overlap of A: B.start_line is A.end_line minus
\* the number of shared lines, and the shared lines are the longest suffix
\* of A's lines whose per-line token estimates sum to at most chunk_overlap.
NextWindowStartsWithTheOverlap ==
    WindowedChunks =>
        \A i \in 1..(Len(chunks) - 1) :
            LET A == chunks[i]
                B == chunks[i + 1]
                shared == LongestSuffixWithin(A.content, chunk_overlap)
            IN /\ B.start_line = A.end_line - shared
               /\ SubSeq(B.content, 1, shared)
                     = SubSeq(A.content, Len(A.content) - shared + 1, Len(A.content))

\* ------------------------------------------------------------------------
\* agents/parser.py: ParserAgent.parse, all fields of the ParsedFile
\* ------------------------------------------------------------------------

\* A file given to parse, by what the code reads of file_path and content:
\*   suffix       Path(file_path).suffix
\*   in_pages     '/pages/' is in the path
\*   mentions     "next": content holds 'next'; "react": it holds 'react',
\*                'usestate' or 'useeffect' and not 'next'; "none": neither
\*   declared     0-based lines of the component pattern matches
\*   imports, exports, api_calls, env_vars, route_tags
\*                number of matches of the import pattern, the export
\*                patterns, the call patterns, the env patterns, the
\*                React Router patterns
Sources ==
    [suffix : {".jsx", ".vue", ".svelte"},
     in_pages : BOOLEAN,
     mentions : {"none", "next", "react"},
     declared : UNION {[1..m -> 0..1] : m \in 0..MaxMatches},
     imports : 0..MaxMatches,
     exports : 0..MaxMatches,
     api_calls : 0..MaxMatches,
     env_vars : 0..MaxMatches,
     route_tags : 0..MaxMatches]

MaxImportIndex == 50
MaxParsedExports == 20
MaxParsedApiCalls == 20
MaxParsedEnvVars == 20

\* ParserAgent._detect_framework
detect_framework(src) ==
    IF src.in_pages \/ src.mentions = "next" THEN "nextjs"
    ELSE IF src.mentions = "react" THEN "react"
    ELSE IF src.suffix = ".vue" THEN "vue"
    ELSE IF src.suffix = ".svelte" THEN "svelte"
    ELSE "None"

\* ParserAgent._extract_imports_regex: match number i is the dict of its
\* source and line.
extract_imports_regex(src) ==
    [i \in 1..Min(src.imports, MaxImportIndex + 1) |-> [source |-> i, line |-> i]]

\* ParserAgent._extract_exports
extract_exports(src) ==
    [i \in 1..Min(src.exports, MaxParsedExports) |-> i]

\* ParserAgent._extract_api_calls
extract_api_calls(src) ==
    [i \in 1..Min(src.api_calls, MaxParsedApiCalls) |-> [url |-> i, line |-> i]]

\* ParserAgent._extract_env_vars: list(set(env_vars))[:20], the names found
\* (the order of a set's elements is not fixed by the code).
extract_env_vars(src) == 1..Min(src.env_vars, MaxParsedEnvVars)

\* ParserAgent._extract_nextjs_routes
extract_nextjs_routes(src) ==
    IF src.in_pages THEN <<"route_of_path">> ELSE <<>>

\* ParserAgent._extract_react_router_routes
extract_react_router_routes(src) == [i \in 1..src.route_tags |-> i]

\* ParsedFile(file_path=..., language=..., framework=...): every list empty.
ParsedFile(src) ==
    [framework |-> detect_framework(src),
     components |-> <<>>, imports |-> <<>>, exports |-> <<>>,
     api_calls |-> <<>>, env_vars |-> {}, routes |-> <<>>,
     ast_summary |-> <<>>, parse_errors |-> <<>>]

\* ParserAgent._generate_ast_summary
generate_ast_summary(pf) ==
    <<pf.framework, Len(pf.components), Len(pf.imports), Len(pf.api_calls)>>

\* parse, lines 120-126: the routes of the framework, then the summary.
WithRoutesAndSummary(pf, src) ==
    LET routed == [pf EXCEPT !.routes =
                      IF pf.framework = "nextjs" THEN extract_nextjs_routes(src)
                      ELSE IF pf.framework = "react"
                           THEN extract_react_router_routes(src)
                           ELSE @]
    IN [routed EXCEPT !.ast_summary = generate_ast_summary(routed)]

\* ParserAgent.parse: with tree-sitter (available), without it, and when
\* parser.parse raises.
parse_file(src, available, raises) ==
    IF available /\ raises
    THEN [ParsedFile(src) EXCEPT !.parse_errors = <<"error">>]
    ELSE IF available
    THEN WithRoutesAndSummary(
             [ParsedFile(src) EXCEPT
                 !.components = extract_components(src.declared),
                 !.imports = extract_imports_regex(src),
                 !.exports = extract_exports(src),
                 !.api_calls = extract_api_calls(src),
                 !.env_vars = extract_env_vars(src)], src)
    ELSE WithRoutesAndSummary(
             [ParsedFile(src) EXCEPT
                 !.api_calls = extract_api_calls(src),
                 !.env_vars = extract_env_vars(src),
                 !.imports = extract_imports_regex(src)], src)

\* parsed = parser.parse(file_meta.path, content)
ParseFile ==
    /\ parsePhase = "source"
    /\ parsed_file' = parse_file(source, parsers_available, parser_raises)
    /\ parsePhase' = "parsed"
    /\ UNCHANGED <<source, parser_raises, notParse>>

InitParse ==
    /\ DirIdle
    /\ BackendsIdle
    /\ RunIdle
    /\ ManifestIdle
    /\ MetaIdle
    /\ StoreIdle
    /\ FlowIdle
    /\ WalkIdle
    /\ RedactIdle
    /\ lines = <<>>
    /\ components = <<>>
    /\ chunk_size = 1
    /\ chunk_overlap = 0
    /\ use_ast_chunking = FALSE
    /\ chunks = <<>>
    /\ chunkPhase = "input"
    /\ declared = <<>>
    /\ parsed = FALSE
    /\ parsers_available \in BOOLEAN
    /\ parser_raises \in BOOLEAN
    /\ (parser_raises => parsers_available)
    /\ source \in Sources
    /\ parsed_file = None
    /\ parsePhase = "source"

NextParse == ParseFile

SpecParse == InitParse /\ [][NextParse]_vars

\* ------------------------------------------------------------------------
\* Properties of parse (SpecParse)
\* ------------------------------------------------------------------------

\* The facts of a ParsedFile that the two paths are to agree on.
Facts(pf) ==
    <<pf.components, pf.imports, pf.exports, pf.api_calls, pf.env_vars, pf.routes>>

\* C23: whichever path ran (tree-sitter, the fallback without tree-sitter,
\* or tree-sitter raising), the ParsedFile parse returns has the components,
\* imports, exports, api_calls, env_vars and routes that the tree-sitter
\* path gives for the same file.
EveryPathGivesTheFactsOfTheStructuralPath ==
    parsePhase = "parsed" =>
        Facts(parsed_file) = Facts(parse_file(source, TRUE, FALSE))

\* ------------------------------------------------------------------------
\* agents/summarizer.py, agents/indexer.py: summaries and manifest
\* ------------------------------------------------------------------------

MaxFileExports == 5
MaxFileDependencies == 5
MaxEndpointsUsed == 10
MaxSuggestions == 10
MaxManifestComponents == 50
MaxManifestApiCalls == 20

\* An entry of parsed_files that is None.
NullParsed ==
    [present |-> FALSE, framework |-> "None", routes |-> <<>>, components |-> 0,
     api_calls |-> 0, exports |-> 0]

\* The ParsedFile objects of the list: routes are numbered strings,
\* components and exports are given by their number, api_calls n stands for
\* calls of the urls "/users/1" .. "/users/n".
ParsedRecords ==
    [present : {TRUE}, framework : {"None", "react", "vue"},
     routes : {<<>>, <<2, 1>>}, components : 0..1,
     api_calls : {0, 1, MaxManifestApiCalls + 1}, exports : 0..1]
    \cup {NullParsed}

ParsedLists == UNION {[1..n -> ParsedRecords] : n \in 0..MaxParsed}

\* The strings a set of the build can hold, in one fixed order.
FrameworkNames == <<"nextjs", "react", "svelte", "vue">>
NumberedNames == [i \in 1..(MaxManifestApiCalls + 1) |-> i]

Reverse(sq) == [i \in 1..Len(sq) |-> sq[Len(sq) + 1 - i]]

\* The order in which a set of strings iterates depends on the hashes of
\* the strings, which differ from one process to the next: two of these
\* orders.
HashOrders == {"forward", "backward"}

Take(sq, n) == SubSeq(sq, 1, Min(n, Len(sq)))

\* list(set), for a set of strings of names.
list_of_set(S, names, order) ==
    SelectSeq(IF order = "forward" THEN names ELSE Reverse(names),
              LAMBDA x : x \in S)

\* The number of elements of sq equal to x: sq.count(x).
RECURSIVE Count(_, _)
Count(sq, x) ==
    IF sq = <<>> THEN 0
    ELSE (IF Head(sq) = x THEN 1 ELSE 0) + Count(Tail(sq), x)

\* max(set(sq), key=sq.count): the first element of the set's iteration
\* that has the highest count.
RECURSIVE MaxByCount(_, _, _)
MaxByCount(it, sq, best) ==
    IF it = <<>> THEN best
    ELSE MaxByCount(Tail(it), sq,
                    IF Count(sq, Head(it)) > Count(sq, best) THEN Head(it) ELSE best)

MostCommon(sq, order) ==
    LET it == list_of_set(Range(sq), FrameworkNames, order)
    IN MaxByCount(Tail(it), sq, Head(it))

\* The urls of the api_calls of the entries of parsed_files that are not
\* None, in the order of the list.
RECURSIVE AllUrls(_)
AllUrls(pfs) ==
    IF pfs = <<>> THEN <<>>
    ELSE (IF Head(pfs).present THEN [i \in 1..Head(pfs).api_calls |-> i] ELSE <<>>)
         \o AllUrls(Tail(pfs))

\* Likewise their routes.
RECURSIVE AllRoutes(_)
AllRoutes(pfs) ==
    IF pfs = <<>> THEN <<>>
    ELSE (IF Head(pfs).present THEN Head(pfs).routes ELSE <<>>)
         \o AllRoutes(Tail(pfs))

\* Likewise the dicts made of their components: file and name.
RECURSIVE ComponentsFrom(_, _)
ComponentsFrom(pfs, i) ==
    IF i > Len(pfs) THEN <<>>
    ELSE (IF pfs[i].present
          THEN [c \in 1..pfs[i].components |-> [file |-> i, name |-> c]]
          ELSE <<>>)
         \o ComponentsFrom(pfs, i + 1)

\* SummarizerAgent._generate_basic_summary: the counts that are not zero
\* and the framework.
generate_basic_summary(pf) ==
    <<"basic", pf.components, pf.api_calls, pf.exports, pf.framework>>

\* SummarizerAgent._generate_llm_summary: response.content[:200]
generate_llm_summary(i) == <<"llm", i>>

\* The FileSummary for entry i as it would be with a failure of the LLM
\* handled by the outer except clause.
FileSummaryErrorOnFailure(pfs, outcome, i) ==
    [file_path |-> i,
     purpose |-> IF outcome[i] = "ok" THEN generate_llm_summary(i)
                 ELSE IF outcome[i] = "raises" THEN <<"Error generating summary">>
                 ELSE generate_basic_summary(pfs[i]),
     key_exports |-> IF outcome[i] = "raises" THEN 0
                     ELSE Min(pfs[i].exports, MaxFileExports),
     api_dependencies |-> IF outcome[i] = "raises" THEN 0
                          ELSE Min(pfs[i].api_calls, MaxFileDependencies),
     framework |-> pfs[i].framework]

\* The FileSummary of _generate_file_summaries for entry i of parsed_files.
FileSummary(pfs, outcome, i) ==
    [file_path |-> i,
     purpose |-> IF outcome[i] = "ok" THEN generate_llm_summary(i)
                 ELSE generate_basic_summary(pfs[i]),
     key_exports |-> Min(pfs[i].exports, MaxFileExports),
     api_dependencies |-> Min(pfs[i].api_calls, MaxFileDependencies),
     framework |-> pfs[i].framework]

\* SummarizerAgent._generate_file_summaries from entry i on.
RECURSIVE FileSummariesFrom(_, _, _)
FileSummariesFrom(pfs, outcome, i) ==
    IF i > Len(pfs) THEN <<>>
    ELSE (IF pfs[i].present THEN <<FileSummary(pfs, outcome, i)>> ELSE <<>>)
         \o FileSummariesFrom(pfs, outcome, i + 1)

generate_file_summaries(pfs, outcome) == FileSummariesFrom(pfs, outcome, 1)

\* SummarizerAgent._extract_api_endpoints: a url that starts with "/" is
\* its own endpoint.
extract_api_endpoints(urls) == urls

\* SummarizerAgent._suggest_backend_endpoints: "/api" + endpoint for each
\* endpoint of the set, the first ten.
suggest_backend_endpoints(endpoints, order) ==
    LET it == list_of_set(Range(endpoints), NumberedNames, order)
    IN Take([i \in 1..Len(it) |-> <<"/api", it[i]>>], MaxSuggestions)

Architecture(framework) ==
    CASE framework = "nextjs" -> "Next.js Full-stack"
      [] framework = "react" -> "React Application"
      [] framework = "vue" -> "Vue.js Application"
      [] OTHER -> "Frontend SPA"

\* SummarizerAgent._generate_project_summary
generate_project_summary(file_summaries, pfs, order) ==
    LET with_framework == SelectSeq(file_summaries, LAMBDA f : f.framework # "None")
        frameworks == [i \in 1..Len(with_framework) |-> with_framework[i].framework]
        framework == IF frameworks # <<>> THEN MostCommon(frameworks, order) ELSE "None"
        api_endpoints == extract_api_endpoints(AllUrls(pfs))
    IN [framework |-> framework,
        architecture |-> Architecture(framework),
        key_components |-> Take([i \in 1..Len(file_summaries) |->
                                    file_summaries[i].file_path], 5),
        api_endpoints_used |->
            Take(list_of_set(Range(api_endpoints), NumberedNames, order),
                 MaxEndpointsUsed),
        suggested_backend_endpoints |-> suggest_backend_endpoints(api_endpoints, order)]

\* SummarizerAgent.generate_summaries (folder summaries left out: nothing
\* reads them but the exporter).
generate_summaries(pfs, outcome, order) ==
    LET file_summaries == generate_file_summaries(pfs, outcome)
    IN [file_summaries |-> file_summaries,
        project_summary |-> generate_project_summary(file_summaries, pfs, order)]

\* IndexerAgent.build_manifest
build_manifest(pfs, sums, order) ==
    LET routes == AllRoutes(pfs)
        comps == ComponentsFrom(pfs, 1)
        api_calls == Range(AllUrls(pfs))
        project_summary == sums.project_summary
    IN [framework |-> project_summary.framework,
        routes |-> list_of_set(Range(routes), NumberedNames, order),
        pages |-> <<>>,
        components |-> Take(comps, MaxManifestComponents),
        api_calls |-> Take(list_of_set(api_calls, NumberedNames, order),
                           MaxManifestApiCalls),
        suggested_backend_endpoints |-> project_summary.suggested_backend_endpoints,
        integration_hints |-> [detected_framework |-> project_summary.framework,
                               total_components |-> Len(comps),
                               total_routes |-> Len(routes),
                               architecture |-> project_summary.architecture]]

\* One build in a process of its own: summarizer_node, then build_manifest
\* of indexer_node, on the same parsed_files.
BuildManifest(order) ==
    /\ Len(manifests) < NumBuilds
    /\ hash_order' = order
    /\ summaries' = <<generate_summaries(parsed_files, llm, order)>>
    /\ manifests' = Append(manifests, build_manifest(parsed_files, summaries'[1], order))
    /\ UNCHANGED <<parsed_files, llm, notManifest>>

InitManifest ==
    /\ DirIdle
    /\ BackendsIdle
    /\ RunIdle
    /\ MetaIdle
    /\ StoreIdle
    /\ ChunkIdle
    /\ FlowIdle
    /\ WalkIdle
    /\ RedactIdle
    /\ ParseIdle
    /\ parsed_files \in {pfs \in ParsedLists : \A i \in 1..Len(pfs) : pfs[i].exports = 0}
    /\ llm = [i \in 1..Len(parsed_files) |-> "absent"]
    /\ summaries = <<>>
    /\ hash_order = "forward"
    /\ manifests = <<>>

NextManifest == \E order \in HashOrders : BuildManifest(order)

SpecManifest == InitManifest /\ [][NextManifest]_vars

\* ------------------------------------------------------------------------
\* Properties of the manifest (SpecManifest)
\* ------------------------------------------------------------------------

\* C24: two builds from the same pf files and summaries yield the same
\* framework, routes list, components list, api_calls list and
\* suggested_backend_endpoints list.
ManifestBuildIsDeterministic ==
    \A i, j \in 1..Len(manifests) :
        /\ manifests[i].framework = manifests[j].framework
        /\ manifests[i].routes = manifests[j].routes
        /\ manifests[i].components = manifests[j].components
        /\ manifests[i].api_calls = manifests[j].api_calls
        /\ manifests[i].suggested_backend_endpoints
              = manifests[j].suggested_backend_endpoints

\* summaries = summarizer.generate_summaries(state["parsed_files"], state["chunks"])
GenerateSummaries(order) ==
    /\ summaries = <<>>
    /\ manifests = <<>>
    /\ hash_order' = order
    /\ summaries' = <<generate_summaries(parsed_files, llm, order)>>
    /\ UNCHANGED <<parsed_files, llm, manifests, notManifest>>

\* What the LLM does on each file of a run: there is none, or it answers or
\* raises file by file.
LlmOutcomes(n) == [1..n -> {"absent"}] \cup [1..n -> {"ok", "raises"}]

InitSummary ==
    /\ DirIdle
    /\ BackendsIdle
    /\ RunIdle
    /\ MetaIdle
    /\ StoreIdle
    /\ ChunkIdle
    /\ FlowIdle
    /\ WalkIdle
    /\ RedactIdle
    /\ ParseIdle
    /\ parsed_files \in {pfs \in ParsedLists :
           \A i \in 1..Len(pfs) : pfs[i].routes = <<>> /\ pfs[i].api_calls <= 1}
    /\ llm \in LlmOutcomes(Len(parsed_files))
    /\ summaries = <<>>
    /\ hash_order = "forward"
    /\ manifests = <<>>

NextSummary == \E order \in HashOrders : GenerateSummaries(order)

SpecSummary == InitSummary /\ [][NextSummary]_vars

\* ------------------------------------------------------------------------
\* Properties of the summaries (SpecSummary)
\* ------------------------------------------------------------------------

\* The entries of parsed_files that are not None, by their position.
RECURSIVE PresentFrom(_, _)
PresentFrom(pfs, i) ==
    IF i > Len(pfs) THEN <<>>
    ELSE (IF pfs[i].present THEN <<i>> ELSE <<>>) \o PresentFrom(pfs, i + 1)

\* C25: whatever the LLM does (absent, answering or raising on any file),
\* generate_summaries returns exactly one FileSummary for each parsed file
\* that is not None, and on every file on which the LLM is absent or raises
\* the purpose is the basic summary made of the counts.
SummariesNeverDependOnTheLlm ==
    summaries # <<>> =>
        LET fs == summaries[1].file_summaries
            present == PresentFrom(parsed_files, 1)
        IN /\ Len(fs) = Len(present)
           /\ \A k \in 1..Len(fs) :
                 /\ fs[k].file_path = present[k]
                 /\ llm[present[k]] \in {"absent", "raises"} =>
                       fs[k].purpose =
                           <<"basic", parsed_files[present[k]].components,
                             parsed_files[present[k]].api_calls,
                             parsed_files[present[k]].exports,
                             parsed_files[present[k]].framework>>

\* Witness of C25: the LLM raised on the first of two files and answered on
\* the second; both have a summary, the first the basic one.
BasicSummaryForTheFileTheLlmFailedOn ==
    /\ summaries # <<>>
    /\ Len(parsed_files) = 2
    /\ llm = <<"raises", "ok">>
    /\ Len(summaries[1].file_summaries) = 2
    /\ summaries[1].file_summaries[1].purpose[1] = "basic"
    /\ summaries[1].file_summaries[2].purpose[1] = "llm"

\* ------------------------------------------------------------------------
\* agents/redactor.py: RedactorAgent.redact on the text of a chunk
\* ------------------------------------------------------------------------

\* A text is a sequence of pieces, each standing for a string:
\*   "kw"     a keyword of the assignment pattern   token
\*   "bearer"                                        bearer
\*   "sk"     sk- and 20 letters                     sk-AAAAAAAAAAAAAAAAAAAA
\*   "ghp"    ghp_ and 36 letters                    ghp_BBBB...B
\*   "w"      any other word                         xyz
\*   "eq"     = or :          "sp"  a blank          "q"  a quote
\*   "x"      any other character                    ;
\* and, in the output of a substitution only,
\*   "R"      the placeholder                        [REDACTED]
\*   "sk_tail", "ghp_tail"   what is left of an "sk" or "ghp" piece whose
\*            leading letters a match of the sk pattern has taken
Symbols == {"kw", "bearer", "sk", "ghp", "w", "eq", "sp", "q", "x"}

\* Pieces made of characters of [\w\-] only.
WordSymbols == {"kw", "bearer", "sk", "ghp", "w", "sk_tail", "ghp_tail"}

\* Pieces made of characters of [a-zA-Z0-9] only.
AlnumSymbols == {"kw", "bearer", "w"}

ChunkTexts == UNION {[1..n -> Symbols] : n \in 0..MaxContent}

\* The configured pattern lists: the default list with any of its patterns
\* removed.
PatternLists ==
    {pl \in UNION {[1..n -> Range(DefaultPatterns)] : n \in 0..Len(DefaultPatterns)} :
        \A i, j \in 1..Len(pl) : i < j =>
            \E a, b \in 1..Len(DefaultPatterns) :
                a < b /\ DefaultPatterns[a] = pl[i] /\ DefaultPatterns[b] = pl[j]}

At(s, i) == IF i \in 1..Len(s) THEN s[i] ELSE "end"

\* The number of pieces of s from position i on that are in class.
RECURSIVE RunLen(_, _, _)
RunLen(s, i, class) ==
    IF At(s, i) \notin class THEN 0 ELSE 1 + RunLen(s, i + 1, class)

NoMatch == [len |-> 0, rest |-> <<>>]

\* (?i)(api[_-]?key|secret|password|token)\s*[:=]\s*['\"]?[\w\-]+['\"]?
MatchAssignment(s, i) ==
    LET j == i + 1 + RunLen(s, i + 1, {"sp"})
        k == j + 1 + RunLen(s, j + 1, {"sp"})
        v == IF At(s, k) = "q" THEN k + 1 ELSE k
        n == RunLen(s, v, WordSymbols)
        e == v + n
    IN IF At(s, i) = "kw" /\ At(s, j) = "eq" /\ n > 0
       THEN [len |-> (IF At(s, e) = "q" THEN e + 1 ELSE e) - i, rest |-> <<>>]
       ELSE NoMatch

\* (?i)bearer\s+[\w\-\.]+
MatchBearer(s, i) ==
    LET r == RunLen(s, i + 1, {"sp"})
        n == RunLen(s, i + 1 + r, WordSymbols)
    IN IF At(s, i) = "bearer" /\ r > 0 /\ n > 0
       THEN [len |-> 1 + r + n, rest |-> <<>>]
       ELSE NoMatch

\* sk-[a-zA-Z0-9]{20,}: the match runs on over the letters that follow, also
\* over the leading letters of a following "sk" or "ghp" piece.
MatchSk(s, i) ==
    LET a == RunLen(s, i + 1, AlnumSymbols)
        nxt == At(s, i + 1 + a)
    IN IF At(s, i) # "sk" THEN NoMatch
       ELSE IF nxt = "sk" THEN [len |-> a + 2, rest |-> <<"sk_tail">>]
       ELSE IF nxt = "ghp" THEN [len |-> a + 2, rest |-> <<"ghp_tail">>]
       ELSE [len |-> a + 1, rest |-> <<>>]

\* ghp_[a-zA-Z0-9]{36}
MatchGhp(s, i) ==
    IF At(s, i) = "ghp" THEN [len |-> 1, rest |-> <<>>] ELSE NoMatch

\* The match of pattern p that starts at position i of s.
Match(p, s, i) ==
    CASE p = "assignment" -> MatchAssignment(s, i)
      [] p = "bearer" -> MatchBearer(s, i)
      [] p = "sk" -> MatchSk(s, i)
      [] p = "ghp" -> MatchGhp(s, i)

\* pattern.sub('[REDACTED]', s) as it would be replacing the first match only.
RECURSIVE SubFirstMatchOnly(_, _, _)
SubFirstMatchOnly(p, s, i) ==
    IF i > Len(s) THEN <<>>
    ELSE LET m == Match(p, s, i)
         IN IF m.len > 0
            THEN <<"R">> \o m.rest \o SubSeq(s, i + m.len, Len(s))
            ELSE <<s[i]>> \o SubFirstMatchOnly(p, s, i + 1)

\* pattern.sub('[REDACTED]', s) from position i: the matches are found from
\* left to right and do not overlap.
RECURSIVE Sub(_, _, _)
Sub(p, s, i) ==
    IF i > Len(s) THEN <<>>
    ELSE LET m == Match(p, s, i)
         IN IF m.len > 0
            THEN <<"R">> \o m.rest \o Sub(p, s, i + m.len)
            ELSE <<s[i]>> \o Sub(p, s, i + 1)

\* The loop of redact over self.patterns, from pattern number k.
RECURSIVE SubAll(_, _, _)
SubAll(patterns, s, k) ==
    IF k > Len(patterns) THEN s
    ELSE SubAll(patterns, Sub(patterns[k], s, 1), k + 1)

\* RedactorAgent.redact, on the content of the chunk.
redact_content(content, enabled, patterns) ==
    IF ~enabled \/ patterns = <<>> THEN content
    ELSE SubAll(patterns, content, 1)

\* redactor.redact(chunk)
Redact ==
    /\ redactPhase = "input"
    /\ redacted_content' = redact_content(original_content, redact_secrets,
                                          redact_patterns)
    /\ redactPhase' = "redacted"
    /\ UNCHANGED <<redact_patterns, original_content, redact_secrets,
                   batch_size, embedder_available, provider_dim, file_inventory,
                   emitted, state_chunks, state_embeddings, provider_texts,
                   failed_batches, vector_index, scan_logs, store_outcome,
                   prior_disk, pc, objectVars, notRedact>>

InitRedact ==
    /\ DirIdle
    /\ BackendsIdle
    /\ RunIdle
    /\ ManifestIdle
    /\ ParseIdle
    /\ MetaIdle
    /\ StoreIdle
    /\ ChunkIdle
    /\ WalkIdle
    /\ FlowNotStarted
    /\ redact_secrets \in BOOLEAN
    /\ redact_patterns \in PatternLists
    /\ original_content \in ChunkTexts
    /\ redacted_content = <<>>
    /\ redactPhase = "input"
    /\ NoChunkGiven

NextRedact == Redact

SpecRedact == InitRedact /\ [][NextRedact]_vars

\* ------------------------------------------------------------------------
\* Properties of redact (SpecRedact)
\* ------------------------------------------------------------------------

\* The text s has a substring that matches pattern p.
HasMatch(p, s) == \E i \in 1..Len(s) : Match(p, s, i).len > 0

\* C20: with redact_secrets on, the content of the chunk redact returns
\* has no substring matching a configured pattern, and holds the placeholder
\* if a match was removed; a chunk without a match is returned as it was.
RedactedContentHasNoSecretMatch ==
    (redactPhase = "redacted" /\ redact_secrets) =>
        /\ \A k \in 1..Len(redact_patterns) :
              ~HasMatch(redact_patterns[k], redacted_content)
        /\ (\E k \in 1..Len(redact_patterns) :
                HasMatch(redact_patterns[k], original_content))
              => "R" \in Range(redacted_content)
        /\ (\A k \in 1..Len(redact_patterns) :
                ~HasMatch(redact_patterns[k], original_content))
              => redacted_content = original_content

\* Witness of C20: the assignment of an sk- key to an API-key name was
\* redacted with the default patterns, and neither is left.
ApiKeyAssignmentRedacted ==
    /\ redactPhase = "redacted"
    /\ redact_secrets
    /\ redact_patterns = DefaultPatterns
    /\ original_content = <<"kw", "sp", "eq", "sk">>
    /\ redacted_content = <<"R">>

\* ------------------------------------------------------------------------
\* agents/redactor.py: RedactorAgent.redact on a CodeChunk object
\* ------------------------------------------------------------------------

\* A dict is the set of its <<key, value>> pairs.
\* {**m, key: value}
DictWith(m, key, value) == {kv \in m : kv[1] # key} \cup {<<key, value>>}

\* The metadata maps of the chunks given to redact: as the chunker makes
\* them, and with a "redacted" key already there.
MetadataMaps ==
    { {<<"component_name", "App">>},
      {<<"component_name", "App">>, <<"redacted", "False">>},
      {<<"redacted", "True">>} }

\* The CodeChunk objects given to redact.
GivenChunks ==
    {[chunk_id |-> v, file_path |-> v, content |-> t, start_line |-> v - 1,
      end_line |-> v + 1, token_count |-> v,
      chunk_type |-> IF v = 1 THEN "component" ELSE "text",
      language |-> IF v = 1 THEN "javascript" ELSE "typescript",
      metadata |-> m,
      provenance |-> {<<"file_path", "src">>,
                      <<"component_name", IF v = 1 THEN "App" ELSE "Other">>}] :
        v \in 1..2, m \in MetadataMaps,
        t \in UNION {[1..n -> Symbols] : n \in 0..MaxText}}

\* RedactorAgent.redact with the metadata of the result holding only the
\* flag.
redact_chunk_flag_only(c, enabled, patterns) ==
    IF ~enabled \/ patterns = <<>> THEN c
    ELSE [chunk_id |-> c.chunk_id, file_path |-> c.file_path,
          content |-> SubAll(patterns, c.content, 1),
          start_line |-> c.start_line, end_line |-> c.end_line,
          token_count |-> c.token_count, chunk_type |-> c.chunk_type,
          language |-> c.language,
          metadata |-> {<<"redacted", "True">>},
          provenance |-> c.provenance]

\* RedactorAgent.redact: the chunk itself when redaction is off or no
\* pattern is configured, a new chunk otherwise.
redact_chunk(c, enabled, patterns) ==
    IF ~enabled \/ patterns = <<>> THEN c
    ELSE [chunk_id |-> c.chunk_id, file_path |-> c.file_path,
          content |-> SubAll(patterns, c.content, 1),
          start_line |-> c.start_line, end_line |-> c.end_line,
          token_count |-> c.token_count, chunk_type |-> c.chunk_type,
          language |-> c.language,
          metadata |-> DictWith(c.metadata, "redacted", "True"),
          provenance |-> c.provenance]

\* redacted = redactor.redact(chunk)
RedactChunk ==
    /\ redactPhase = "input"
    /\ returned_chunk' = redact_chunk(given_chunk, redact_secrets, redact_patterns)
    /\ redacted_content' = returned_chunk'.content
    /\ redactPhase' = "redacted"
    /\ UNCHANGED <<given_chunk, returned_again, redact_patterns,
                   original_content, flowVars, notRedact>>

\* redactor.redact(redacted)
RedactAgain ==
    /\ redactPhase = "redacted"
    /\ returned_again' = redact_chunk(returned_chunk, redact_secrets, redact_patterns)
    /\ redactPhase' = "redacted_twice"
    /\ UNCHANGED <<given_chunk, returned_chunk, redact_patterns,
                   original_content, redacted_content, flowVars, notRedact>>

InitObject ==
    /\ DirIdle
    /\ BackendsIdle
    /\ RunIdle
    /\ ManifestIdle
    /\ ParseIdle
    /\ MetaIdle
    /\ StoreIdle
    /\ ChunkIdle
    /\ WalkIdle
    /\ FlowNotStarted
    /\ redact_secrets \in BOOLEAN
    /\ redact_patterns \in PatternLists
    /\ given_chunk \in GivenChunks
    /\ original_content = given_chunk.content
    /\ redacted_content = <<>>
    /\ redactPhase = "input"
    /\ returned_chunk = None
    /\ returned_again = None

NextObject ==
    \/ RedactChunk
    \/ RedactAgain

SpecObject == InitObject /\ [][NextObject]_vars

\* ------------------------------------------------------------------------
\* Properties of redact on chunk objects (SpecObject)
\* ------------------------------------------------------------------------

\* C21: redact is idempotent: the chunk redact returns for a chunk it
\* returned equals that chunk in content, metadata and every other field.
RedactIsIdempotent ==
    redactPhase = "redacted_twice" => returned_again = returned_chunk

\* Witness of C21: the first call replaced the start of two adjacent sk-
\* keys and left the tail of the second, and the second call changed nothing.
TailOfSecondKeyLeftTwice ==
    /\ redactPhase = "redacted_twice"
    /\ redact_secrets
    /\ given_chunk.content = <<"sk", "sk">>
    /\ returned_chunk.content = <<"R", "sk_tail">>
    /\ returned_again.content = <<"R", "sk_tail">>
    /\ <<"redacted", "True">> \in returned_again.metadata

\* The fields of a chunk that redact copies.
CopiedFields(c) ==
    <<c.chunk_id, c.file_path, c.start_line, c.end_line, c.chunk_type,
      c.language, c.provenance>>

\* The result of redact has the metadata of the chunk given plus
\* redacted = true and the same copied fields.
FlagAddedAndFieldsKept ==
    /\ returned_chunk.metadata = DictWith(given_chunk.metadata, "redacted", "True")
    /\ CopiedFields(returned_chunk) = CopiedFields(given_chunk)

\* C22 as stated: for every chunk the result of redact has the metadata of
\* the input plus redacted = true and the same chunk_id, file_path,
\* start_line, end_line, chunk_type, language and provenance, and the input
\* chunk object is not changed by the call.
RedactChangesOnlyContentAndFlag ==
    /\ [](redactPhase = "redacted" => FlagAddedAndFieldsKept)
    /\ [][RedactChunk => given_chunk' = given_chunk]_vars

\* C22 amended: the above holds when redact_secrets is on and a pattern
\* is configured; otherwise redact returns the chunk it was given, without
\* the flag.
RedactChangesOnlyContentAndFlagWhenEnabled ==
    /\ [](redactPhase = "redacted" =>
            IF redact_secrets /\ redact_patterns # <<>>
            THEN FlagAddedAndFieldsKept
            ELSE returned_chunk = given_chunk)
    /\ [][RedactChunk => given_chunk' = given_chunk]_vars

\* Witness of C22: a chunk with a component name in its metadata had a key
\* replaced in its content and got the flag next to the name.
SecretReplacedAndFlagAddedToMetadata ==
    /\ redactPhase = "redacted"
    /\ redact_secrets
    /\ given_chunk.metadata = {<<"component_name", "App">>}
    /\ given_chunk.content = <<"kw", "eq", "sk">>
    /\ returned_chunk.content = <<"R">>
    /\ returned_chunk.metadata = {<<"component_name", "App">>, <<"redacted", "True">>}

\* ------------------------------------------------------------------------
\* agents/redactor.py, agents/embedder.py, agents/indexer.py,
\* workflows/scanner_graph.py
\* ------------------------------------------------------------------------

\* The content of a chunk: body identifies the text, secret tells whether it
\* holds a substring matching a redact pattern, placeholder whether it holds
\* [REDACTED].
Content(body, secret) == [body |-> body, secret |-> secret, placeholder |-> FALSE]

\* pattern.sub('[REDACTED]', content) over the redact patterns
SubPatterns(content) ==
    [content EXCEPT !.secret = FALSE, !.placeholder = @ \/ content.secret]

\* RedactorAgent.redact
redact(c, enabled) ==
    IF ~enabled THEN c
    ELSE [c EXCEPT !.content = SubPatterns(@), !.metadata.redacted = TRUE]

RECURSIVE MapRedact(_, _)
MapRedact(cs, enabled) ==
    IF cs = <<>> THEN <<>>
    ELSE <<redact(Head(cs), enabled)>> \o MapRedact(Tail(cs), enabled)

\* The reducer of an Annotated[List, operator.add] field of ScannerState:
\* the list a node returns is added to the list in the state.
Reducer(old, update) == old \o update

\* embedder.embed_documents(texts) of a batch that succeeds: one vector of
\* the model's dimension for each text.
EmbedText(content, d) == [i \in 1..d |-> IF i = 1 THEN content.body ELSE 0]

\* ceil(len(chunks) / batch_size): the number of batches of embed_chunks
NumBatches(n, size) == (n + size - 1) \div size

\* The batch chunks[i:i + batch_size] of batch number b (from 0)
Batch(cs, size, b) == SubSeq(cs, b * size + 1, Min(Len(cs), (b + 1) * size))

RECURSIVE EmbedBatch(_, _)
EmbedBatch(batch, d) ==
    IF batch = <<>> THEN <<>>
    ELSE <<[chunk_id |-> Head(batch).chunk_id,
            embedding |-> EmbedText(Head(batch).content, d)]>>
         \o EmbedBatch(Tail(batch), d)

\* EmbedderAgent.embed_chunks, the loop over the batches from batch b, as
\* it would be with the failure of a batch ending the loop.
RECURSIVE EmbedFromAbortOnFailure(_, _, _, _, _)
EmbedFromAbortOnFailure(cs, size, d, failed, b) ==
    IF b >= NumBatches(Len(cs), size) \/ b \in failed THEN <<>>
    ELSE EmbedBatch(Batch(cs, size, b), d)
         \o EmbedFromAbortOnFailure(cs, size, d, failed, b + 1)

\* EmbedderAgent.embed_chunks, the loop over the batches from batch b: a
\* batch on which the provider raises is skipped.
RECURSIVE EmbedFrom(_, _, _, _, _)
EmbedFrom(cs, size, d, failed, b) ==
    IF b >= NumBatches(Len(cs), size) THEN <<>>
    ELSE (IF b \in failed THEN <<>> ELSE EmbedBatch(Batch(cs, size, b), d))
         \o EmbedFrom(cs, size, d, failed, b + 1)

\* EmbedderAgent.embed_chunks
embed_chunks(cs, size, d, failed, available) ==
    IF ~available THEN <<>> ELSE EmbedFrom(cs, size, d, failed, 0)

RECURSIVE Contents(_)
Contents(cs) ==
    IF cs = <<>> THEN <<>> ELSE <<Head(cs).content>> \o Contents(Tail(cs))

\* IndexerAgent.build_index, the loop over zip(chunks, embeddings) from
\* pair i on the store st.
RECURSIVE AddPairs(_, _, _, _, _)
AddPairs(st, dim, cs, es, i) ==
    IF i > Min(Len(cs), Len(es)) THEN st
    ELSE AddPairs(faiss_add(st.index, st.chunk_data, dim, cs[i].chunk_id,
                            es[i].embedding, cs[i].content, cs[i].metadata),
                  dim, cs, es, i + 1)

\* A chunk of file f as parser_chunker_node collects it.
FileChunk(f, secret) ==
    [chunk_id |-> f,
     content |-> Content(f, secret),
     metadata |-> [language |-> 1, chunk_type |-> 1, redacted |-> FALSE]]

\* What parser_chunker_node can collect from files f..n: a file that fails to
\* read, parse or chunk, or is blank, gives no chunk.
RECURSIVE ChunkLists(_, _)
ChunkLists(f, n) ==
    IF f > n THEN {<<>>}
    ELSE LET rest == ChunkLists(f + 1, n)
         IN rest \cup {<<FileChunk(f, secret)>> \o r : secret \in BOOLEAN, r \in rest}

\* filewalker_node
FilewalkerNode(n) ==
    /\ pc = "filewalker"
    /\ pc' = "parser_chunker"
    /\ file_inventory' = [total_files |-> n]
    /\ stages' = Append(stages, "filewalker")
    /\ state_logs' = Reducer(state_logs, <<"Scanned files">>)
    /\ UNCHANGED state_manifest
    /\ UNCHANGED <<redact_secrets, batch_size, embedder_available, provider_dim,
                   prior_disk, store_outcome,
                   emitted, state_chunks, state_embeddings, provider_texts,
                   failed_batches, vector_index, scan_logs, storeVars, notFlowStore>>

\* parser_chunker_node
ParserChunkerNode(all_chunks) ==
    /\ pc = "parser_chunker"
    /\ emitted' = all_chunks
    /\ state_chunks' = Reducer(state_chunks, all_chunks)
    /\ pc' = "redactor"
    /\ stages' = Append(stages, "parser_chunker")
    /\ state_logs' = Reducer(state_logs, <<"Parsed files", "Generated chunks">>)
    /\ UNCHANGED state_manifest
    /\ UNCHANGED <<redact_secrets, batch_size, embedder_available, provider_dim,
                   prior_disk, store_outcome,
                   file_inventory, state_embeddings, provider_texts,
                   failed_batches, vector_index, scan_logs, storeVars, notFlowStore>>

\* redactor_node
RedactorNode ==
    /\ pc = "redactor"
    /\ state_chunks' = Reducer(state_chunks, MapRedact(state_chunks, redact_secrets))
    /\ pc' = "embedder"
    /\ stages' = Append(stages, "redactor")
    /\ state_logs' = Reducer(state_logs, <<"Redacted chunks">>)
    /\ UNCHANGED state_manifest
    /\ UNCHANGED <<redact_secrets, batch_size, embedder_available, provider_dim,
                   prior_disk, store_outcome,
                   file_inventory, emitted, state_embeddings, provider_texts,
                   failed_batches, vector_index, scan_logs, storeVars, notFlowStore>>

\* embedder_node; failed: the batches on which the provider raises.
EmbedderNode(failed) ==
    /\ pc = "embedder"
    /\ failed_batches' = failed
    /\ provider_texts' = IF embedder_available THEN Contents(state_chunks) ELSE <<>>
    /\ state_embeddings' =
           Reducer(state_embeddings,
                   embed_chunks(state_chunks, batch_size, provider_dim, failed,
                                embedder_available))
    /\ pc' = "summarizer"
    /\ stages' = Append(stages, "embedder")
    /\ state_logs' = Reducer(state_logs, <<"Generated embeddings">>)
    /\ UNCHANGED state_manifest
    /\ UNCHANGED <<redact_secrets, batch_size, embedder_available, provider_dim,
                   prior_disk, store_outcome,
                   file_inventory, emitted, state_chunks, vector_index,
                   scan_logs, storeVars, notFlowStore>>

\* summarizer_node
SummarizerNode ==
    /\ pc = "summarizer"
    /\ pc' = "indexer"
    /\ stages' = Append(stages, "summarizer")
    /\ state_logs' = Reducer(state_logs, <<"Generated file summaries">>)
    /\ UNCHANGED state_manifest
    /\ UNCHANGED <<redact_secrets, batch_size, embedder_available, provider_dim,
                   prior_disk, store_outcome,
                   file_inventory, emitted, state_chunks, state_embeddings,
                   provider_texts, failed_batches, vector_index, scan_logs,
                   storeVars, notFlowStore>>

\* How the store calls of build_index can go: VectorStoreFactory.create
\* raises ("open_failed"), persist fails before index.faiss is written
\* ("write_index_failed") or after it, on metadata.pkl ("dump_failed").
StoreOutcomes == {"ok", "open_failed", "write_index_failed", "dump_failed"}

\* FAISSVectorStore.persist on the directory disk: the exception of a failed
\* write is caught and printed; what was written before it stays written.
faiss_persist(disk, st, outcome) ==
    IF outcome = "ok" THEN [index |-> st.index, chunk_data |-> st.chunk_data]
    ELSE IF outcome = "dump_failed"
         THEN [index |-> st.index, chunk_data |-> disk.chunk_data]
         ELSE disk

\* IndexerAgent.build_index: the value it returns; the except branch of a
\* failed create returns zero totals.
build_index_result(cs, es, outcome) ==
    IF outcome = "open_failed"
    THEN [total_chunks |-> 0, total_embeddings |-> 0]
    ELSE [total_chunks |-> Len(cs), total_embeddings |-> Len(es)]

\* indexer_node as it would be with a failure of the store raised to the
\* workflow: the run stops in the node.
IndexerNodeAbortOnStoreFailure(outcome) ==
    /\ pc = "indexer"
    /\ IF outcome # "ok"
       THEN /\ pc' = "ABORTED"
            /\ UNCHANGED <<redact_secrets, batch_size, embedder_available,
                           provider_dim, prior_disk, file_inventory, emitted,
                           state_chunks, state_embeddings, provider_texts,
                           failed_batches, vector_index, scan_logs,
                           store_outcome, storeVars, runVars, notFlowStore>>
       ELSE
          /\ pc' = "exporter"
          /\ LET st == IF outcome = "open_failed"
                       THEN [index |-> <<>>, chunk_data |-> <<>>]
                       ELSE AddPairs([index |-> <<>>, chunk_data |-> <<>>], dimension,
                                     state_chunks, state_embeddings, 1)
                 disk == faiss_persist([index |-> disk_index,
                                        chunk_data |-> disk_chunk_data], st, outcome)
             IN /\ index' = st.index
                /\ chunk_data' = st.chunk_data
                /\ disk_index' = disk.index
                /\ disk_chunk_data' = disk.chunk_data
          /\ vector_index' = build_index_result(state_chunks, state_embeddings, outcome)
          /\ store_outcome' = outcome
          /\ stages' = Append(stages, "indexer")
          /\ state_logs' = Reducer(state_logs, <<"Vector index built", "Manifest generated">>)
          /\ state_manifest' = <<[file_inventory |-> file_inventory]>>
          /\ UNCHANGED <<redact_secrets, batch_size, embedder_available, provider_dim,
                         prior_disk,
                         file_inventory, emitted, state_chunks, state_embeddings,
                         provider_texts, failed_batches, scan_logs, dimension, qvec,
                         qk, qfilters, results, addCalls, addedVecs, durable,
                         restarts, notFlowStore>>

\* indexer_node: build_index creates the store, adds the pairs of
\* zip(chunks, embeddings) and persists.
IndexerNode(outcome) ==
    /\ pc = "indexer"
    /\ pc' = "exporter"
    /\ LET st == IF outcome = "open_failed"
                 THEN [index |-> <<>>, chunk_data |-> <<>>]
                 ELSE AddPairs([index |-> <<>>, chunk_data |-> <<>>], dimension,
                               state_chunks, state_embeddings, 1)
           disk == faiss_persist([index |-> disk_index,
                                  chunk_data |-> disk_chunk_data], st, outcome)
       IN /\ index' = st.index
          /\ chunk_data' = st.chunk_data
          /\ disk_index' = disk.index
          /\ disk_chunk_data' = disk.chunk_data
    /\ vector_index' = build_index_result(state_chunks, state_embeddings, outcome)
    /\ store_outcome' = outcome
    /\ stages' = Append(stages, "indexer")
    /\ state_logs' = Reducer(state_logs, <<"Vector index built", "Manifest generated">>)
    /\ state_manifest' = <<[file_inventory |-> file_inventory]>>
    /\ UNCHANGED <<redact_secrets, batch_size, embedder_available, provider_dim,
                   prior_disk,
                   file_inventory, emitted, state_chunks, state_embeddings,
                   provider_texts, failed_batches, scan_logs, dimension, qvec,
                   qk, qfilters, results, addCalls, addedVecs, durable,
                   restarts, notFlowStore>>

\* exporter_node: _export_logs writes scan_logs.json.
ExporterNode ==
    /\ pc = "exporter"
    /\ pc' = "END"
    /\ scan_logs' = [total_chunks |-> vector_index.total_chunks,
                     total_embeddings |-> vector_index.total_embeddings,
                     status |-> "completed"]
    /\ stages' = Append(stages, "exporter")
    /\ state_logs' = Reducer(state_logs, <<"Results exported successfully">>)
    /\ UNCHANGED state_manifest
    /\ UNCHANGED <<redact_secrets, batch_size, embedder_available, provider_dim,
                   prior_disk, store_outcome,
                   file_inventory, emitted, state_chunks, state_embeddings,
                   provider_texts, failed_batches, vector_index, storeVars,
                   notFlowStore>>

\* The sets of batches on which embedder.embed_documents can raise; without
\* an embedder embed_chunks makes no call.
FailurePatterns ==
    IF embedder_available
    THEN SUBSET (0..(NumBatches(Len(state_chunks), batch_size) - 1))
    ELSE {{}}

\* The persist directory before the run: empty, or the one-entry index an
\* earlier run persisted.
PriorStores(dim) ==
    {[index |-> <<>>, chunk_data |-> <<>>],
     [index |-> <<[i \in 1..dim |-> IF i = 1 THEN 1 ELSE 0]>>,
      chunk_data |-> <<[chunk_id |-> 0,
                        content |-> Content(0, FALSE),
                        metadata |-> [language |-> 1, chunk_type |-> 1,
                                      redacted |-> TRUE]]>>]}

\* workflow.invoke({... "chunks": [], "embeddings": [], ...})
InitFlow ==
    /\ DirIdle
    /\ BackendsIdle
    /\ RunIdle
    /\ ManifestIdle
    /\ ParseIdle
    /\ MetaIdle
    /\ RedactIdle
    /\ WalkIdle
    /\ ChunkIdle
    /\ StoreUnopened
    /\ dimension \in 1..MaxDim
    /\ prior_disk \in PriorStores(dimension)
    /\ disk_index = prior_disk.index
    /\ disk_chunk_data = prior_disk.chunk_data
    /\ store_outcome = "none"
    /\ provider_dim \in 1..MaxDim
    /\ redact_secrets \in BOOLEAN
    /\ batch_size \in 1..MaxBatchSize
    /\ embedder_available \in BOOLEAN
    /\ pc = "filewalker"
    /\ file_inventory = NoObject
    /\ emitted = <<>>
    /\ state_chunks = <<>>
    /\ state_embeddings = <<>>
    /\ provider_texts = <<>>
    /\ failed_batches = {}
    /\ vector_index = NoObject
    /\ scan_logs = NoObject

NextFlow ==
    \/ \E n \in 0..MaxFiles : FilewalkerNode(n)
    \/ /\ pc = "parser_chunker"
       /\ \E all_chunks \in ChunkLists(1, file_inventory.total_files) :
             ParserChunkerNode(all_chunks)
    \/ RedactorNode
    \/ \E failed \in FailurePatterns : EmbedderNode(failed)
    \/ SummarizerNode
    \/ \E outcome \in StoreOutcomes : IndexerNode(outcome)
    \/ ExporterNode

SpecFlow == InitFlow /\ [][NextFlow]_vars

\* LangGraph runs the node the edges make next: a run does not stop between
\* two nodes (every node moves pc).
SpecFlowFair == SpecFlow /\ WF_pc(NextFlow)

\* ------------------------------------------------------------------------
\* Properties of the workflow (SpecFlow)
\* ------------------------------------------------------------------------

\* The chunks that RedactorAgent.redact returns for the chunks of the run.
RedactOutputs == {redact(emitted[i], redact_secrets) : i \in 1..Len(emitted)}

EmbedderHasRun == pc \in {"summarizer", "indexer", "exporter", "END"}
IndexerHasRun == pc \in {"exporter", "END"}

\* C1: every chunk the embedder stage and the indexer stage receive, and
\* every content sent to the provider or stored in the index, is an output
\* of redact for a chunk of the run.
OnlyRedactedChunksAreEmbeddedAndIndexed ==
    /\ EmbedderHasRun =>
          /\ \A i \in 1..Len(state_chunks) : state_chunks[i] \in RedactOutputs
          /\ \A i \in 1..Len(provider_texts) :
                \E c \in RedactOutputs : provider_texts[i] = c.content
    /\ IndexerHasRun =>
          \A i \in 1..Len(chunk_data) :
              \E c \in RedactOutputs : chunk_data[i].content = c.content

\* The positions of chunks whose batch the provider did not fail on.
RECURSIVE IdsOfEmbeddedFrom(_)
IdsOfEmbeddedFrom(i) ==
    IF i > Len(state_chunks) THEN <<>>
    ELSE (IF ((i - 1) \div batch_size) \in failed_batches
          THEN <<>> ELSE <<state_chunks[i].chunk_id>>)
         \o IdsOfEmbeddedFrom(i + 1)

RECURSIVE ChunkIds(_)
ChunkIds(es) ==
    IF es = <<>> THEN <<>> ELSE <<Head(es).chunk_id>> \o ChunkIds(Tail(es))

\* C9: embed_chunks returns, in input order, exactly one embedding for
\* each chunk of every batch on which the provider did not fail, and none
\* for the chunks of the failed batches, whatever batches fail.
EmbeddingsCoverExactlyTheSuccessfulBatches ==
    (EmbedderHasRun /\ embedder_available) =>
        ChunkIds(state_embeddings) = IdsOfEmbeddedFrom(1)

\* Witness of C9: the provider failed on a batch and succeeded on a later
\* one, whose chunks were embedded.
LaterBatchEmbeddedAfterFailedBatch ==
    /\ EmbedderHasRun
    /\ embedder_available
    /\ \E b \in failed_batches :
          \E i \in 1..Len(state_chunks) :
              /\ (i - 1) \div batch_size > b
              /\ ((i - 1) \div batch_size) \notin failed_batches
              /\ \E j \in 1..Len(state_embeddings) :
                    state_embeddings[j].chunk_id = state_chunks[i].chunk_id

\* C10: a run in which an embedding's length differs from the index
\* dimension does not complete: it never reaches the end of the workflow
\* with scan_logs.json reporting status completed.
DimensionMismatchAbortsTheRun ==
    pc = "END" =>
        \A i \in 1..Len(state_embeddings) :
            Len(state_embeddings[i].embedding) = dimension

\* C11: when opening or persisting the vector index fails, no later stage
\* runs, no scan_logs.json reporting a completed run is written, and the
\* persist directory stays as the run found it.
StorageFailureAbortsTheRun ==
    store_outcome \in {"open_failed", "write_index_failed", "dump_failed"} =>
        /\ pc # "END"
        /\ scan_logs = NoObject
        /\ disk_index = prior_disk.index
        /\ disk_chunk_data = prior_disk.chunk_data

\* The nodes in the order of the edges from START to END.
StageOrder ==
    <<"filewalker", "parser_chunker", "redactor", "embedder", "summarizer",
      "indexer", "exporter">>

\* C26: for an existing project root, whatever files fail to read, parse
\* or chunk, the run ends, having run each of the seven stages once in the
\* order of the graph, with a non-empty logs list and a manifest in the
\* final state.
RunEndsAfterTheSevenStagesInOrder ==
    /\ <>(pc = "END")
    /\ [](pc = "END" =>
            /\ stages = StageOrder
            /\ state_logs # <<>>
            /\ state_manifest # <<>>)

\* Witness of C26: a run over MaxFiles files none of which gave a chunk,
\* whose vector store could not be opened, has ended after the seven stages.
RunWithFailedFilesAndStoreEnded ==
    /\ pc = "END"
    /\ file_inventory.total_files = MaxFiles
    /\ emitted = <<>>
    /\ store_outcome = "open_failed"
    /\ stages = StageOrder
    /\ Len(state_logs) = 9

\* The chunk ids of the pairs build_index passes to vector_store.add: those
\* of zip(chunks, embeddings).
RECURSIVE ZippedIds(_, _)
ZippedIds(cs, es) ==
    IF cs = <<>> \/ es = <<>> THEN <<>>
    ELSE <<[chunk |-> Head(cs).chunk_id, embedding |-> Head(es).chunk_id]>>
         \o ZippedIds(Tail(cs), Tail(es))

\* C29: in every add call of build_index the embedding was computed for the
\* chunk it is stored with (same chunk_id), whatever batches failed.
EveryEntryStoresTheVectorOfItsChunk ==
    IndexerHasRun =>
        LET pairs == ZippedIds(state_chunks, state_embeddings)
        IN \A i \in 1..Len(pairs) : pairs[i].chunk = pairs[i].embedding

\* C30: the chunks the embedder, the summarizer and the indexer see are one
\* for each chunk of parser_chunker, in the same order with the same ids,
\* and no chunk id is embedded or indexed twice.
RedactorPreservesTheChunkList ==
    EmbedderHasRun =>
        /\ ChunkIds(state_chunks) = ChunkIds(emitted)
        /\ \A i, j \in 1..Len(state_embeddings) :
              state_embeddings[i].chunk_id = state_embeddings[j].chunk_id => i = j
        /\ IndexerHasRun =>
              \A i, j \in 1..Len(chunk_data) :
                  chunk_data[i].chunk_id = chunk_data[j].chunk_id => i = j

\* ------------------------------------------------------------------------
\* storage/vector_store.py: ChromaVectorStore next to FAISSVectorStore
\* ------------------------------------------------------------------------

\* Keys of the provenance dict of an add call; "language" is a metadata key
\* too.
ProvKeys == {"language", "file_hash"}

\* The dicts with keys among keys and scalar values.
Dicts(keys) == UNION {[ks -> Values] : ks \in SUBSET keys}

\* {**a, **b}
Merged(a, b) ==
    [key \in DOMAIN a \cup DOMAIN b |-> IF key \in DOMAIN b THEN b[key] ELSE a[key]]

\* The conversion loop of ChromaVectorStore.add: a str, int, float or bool
\* value is stored as it is (the values of Dicts are of these types).
clean_metadata(full_metadata) == [key \in DOMAIN full_metadata |-> full_metadata[key]]

\* ChromaVectorStore.add: collection.add does not add an id the collection
\* holds (it skips the record or raises, and add catches what it raises), nor
\* an embedding of another length than the collection's.
chroma_add(coll, chunk_id, embedding, content, metadata, provenance) ==
    IF \/ \E i \in 1..Len(coll) : coll[i].id = chunk_id
       \/ (coll # <<>> /\ Len(coll[1].embedding) # Len(embedding))
    THEN coll
    ELSE Append(coll, [id |-> chunk_id,
                       embedding |-> embedding,
                       document |-> content,
                       metadata |-> clean_metadata(Merged(metadata, provenance))])

RECURSIVE Dot(_, _, _)
Dot(u, v, i) ==
    IF i > Len(u) THEN 0 ELSE u[i] * v[i] + Dot(u, v, i + 1)

\* The collection's "hnsw:space": "cosine".  Between two vectors of VecsOfDim
\* (one positive coordinate each) the cosine distance is 0 on the same axis
\* and 1 on different axes.
CosineDistance(u, v) == IF Dot(u, v, 1) > 0 THEN 0 ELSE 1

\* collection.query(query_embeddings, n_results, where): the entries that
\* match where, the n_results nearest of them in ascending distance; the
\* order among equal distances is the library's choice.
chroma_search(coll, q, n, filters) ==
    LET matching == {x \in 1..Len(coll) : FilterMatch(coll[x].metadata, filters)}
        m == Min(n, Cardinality(matching))
    IN {o \in [1..m -> matching] :
           /\ \A i, j \in 1..m : i < j =>
                 /\ o[i] # o[j]
                 /\ CosineDistance(coll[o[i]].embedding, q)
                       <= CosineDistance(coll[o[j]].embedding, q)
           /\ \A x \in matching :
                 (\A i \in 1..m : o[i] # x) =>
                     CosineDistance(coll[x].embedding, q)
                        >= CosineDistance(coll[o[m]].embedding, q)}

\* ChromaVectorStore.query: the lists it can return.
chroma_query(coll, q, k, filters) ==
    {[i \in 1..Len(o) |-> [chunk_id |-> coll[o[i]].id,
                           content |-> coll[o[i]].document,
                           metadata |-> coll[o[i]].metadata,
                           distance |-> CosineDistance(coll[o[i]].embedding, q)]] :
        o \in chroma_search(coll, q, k, filters)}

\* FAISSVectorStore.add with the provenance dict it appends to chunk_data.
faiss_add_record(st, dim, chunk_id, embedding, content, metadata, provenance) ==
    IF Len(embedding) # dim
    THEN st
    ELSE [index |-> Append(st.index, embedding),
          chunk_data |-> Append(st.chunk_data, [chunk_id |-> chunk_id,
                                                content |-> content,
                                                metadata |-> metadata,
                                                provenance |-> provenance])]

\* The result loop of FAISSVectorStore.query: {**self.chunk_data[idx],
\* "distance": ...} for the positions the search returned, filtered.
RECURSIVE FaissRecords(_, _, _, _, _)
FaissRecords(st, q, order, filters, i) ==
    IF i > Len(order) THEN <<>>
    ELSE (IF FilterMatch(st.chunk_data[order[i]].metadata, filters)
          THEN <<[chunk_id |-> st.chunk_data[order[i]].chunk_id,
                  content |-> st.chunk_data[order[i]].content,
                  metadata |-> st.chunk_data[order[i]].metadata,
                  provenance |-> st.chunk_data[order[i]].provenance,
                  distance |-> L2Distance(st.index[order[i]], q)]>>
          ELSE <<>>)
         \o FaissRecords(st, q, order, filters, i + 1)

\* FAISSVectorStore.query on the records of faiss_add_record.
faiss_query_records(st, dim, q, k, filters) ==
    IF Len(q) # dim \/ Min(k, Len(st.chunk_data)) = 0
    THEN {<<>>}
    ELSE {FaissRecords(st, q, o, filters, 1) :
             o \in faiss_search(st.index, q, Min(k, Len(st.chunk_data)))}

\* filters with at most one key.
OneKeyFilters == {f \in Filters : Cardinality({key \in MetaKeys : f[key] # None}) <= 1}

\* The same add call on a store of each backend.
BackendAdd(chunk_id, embedding, metadata, provenance) ==
    /\ backend_adds < MaxAdds
    /\ backend_query = <<>>
    /\ backend_adds' = backend_adds + 1
    /\ faiss_store' = faiss_add_record(faiss_store, MaxDim, chunk_id, embedding,
                                       "text", metadata, provenance)
    /\ collection' = chroma_add(collection, chunk_id, embedding, "text",
                                metadata, provenance)
    /\ UNCHANGED <<backend_query, faiss_results, chroma_results, notBackends>>

\* The same query on both stores.
BackendQuery(q, k, filters) ==
    /\ backend_query = <<>>
    /\ backend_query' = [query_embedding |-> q, k |-> k, filters |-> filters]
    /\ faiss_results' \in faiss_query_records(faiss_store, MaxDim, q, k, filters)
    /\ chroma_results' \in chroma_query(collection, q, k, filters)
    /\ UNCHANGED <<backend_adds, faiss_store, collection, notBackends>>

InitBackends ==
    /\ MetaIdle
    /\ StoreIdle
    /\ ChunkIdle
    /\ FlowIdle
    /\ WalkIdle
    /\ RedactIdle
    /\ ParseIdle
    /\ ManifestIdle
    /\ RunIdle
    /\ DirIdle
    /\ BackendsIdle

NextBackends ==
    \/ \E chunk_id \in 1..MaxAdds, embedding \in VecsOfDim(MaxDim),
          metadata \in Metadatas, provenance \in Dicts(ProvKeys) :
          BackendAdd(chunk_id, embedding, metadata, provenance)
    \/ \E q \in VecsOfDim(MaxDim), k \in 1..MaxK, filters \in OneKeyFilters :
          BackendQuery(q, k, filters)

SpecBackends == InitBackends /\ [][NextBackends]_vars

RECURSIVE ResultIds(_)
ResultIds(rs) ==
    IF rs = <<>> THEN <<>> ELSE <<Head(rs).chunk_id>> \o ResultIds(Tail(rs))

\* C27: for the same add calls and the same query the Chroma backend and
\* the FAISS backend return the same chunk ids in the same order, in records
\* with the same fields and the same metadata.
BackendsAreInterchangeable ==
    backend_query # <<>> =>
        /\ ResultIds(faiss_results) = ResultIds(chroma_results)
        /\ \A i \in 1..Len(faiss_results) :
              /\ DOMAIN faiss_results[i] = DOMAIN chroma_results[i]
              /\ faiss_results[i].metadata = chroma_results[i].metadata

\* ------------------------------------------------------------------------
\* Two runs on one persist directory
\* ------------------------------------------------------------------------

Runs == 1..2

\* VectorStoreFactory.create in build_index of run r: ChromaVectorStore opens
\* a PersistentClient on the directory, FAISSVectorStore an index in memory.
RunCreate(r) ==
    /\ run_pc[r] = "start"
    /\ run_pc' = [run_pc EXCEPT ![r] = "adding"]
    /\ UNCHANGED <<store_backend, run_added, dir_collection, dir_index,
                   dir_metadata, notDir>>

\* One vector_store.add of run r: Chroma writes the entry to the directory,
\* FAISS keeps it in memory.
RunAdd(r) ==
    /\ run_pc[r] = "adding"
    /\ run_added[r] < MaxRunAdds
    /\ run_added' = [run_added EXCEPT ![r] = @ + 1]
    /\ dir_collection' = IF store_backend = "chroma"
                         THEN Append(dir_collection, r)
                         ELSE dir_collection
    /\ UNCHANGED <<store_backend, run_pc, dir_index, dir_metadata, notDir>>

\* ChromaVectorStore.persist of run r: pass.
RunPersistChroma(r) ==
    /\ store_backend = "chroma"
    /\ run_pc[r] = "adding"
    /\ run_pc' = [run_pc EXCEPT ![r] = "done"]
    /\ UNCHANGED <<store_backend, run_added, dir_collection, dir_index,
                   dir_metadata, notDir>>

\* FAISSVectorStore.persist of run r, faiss.write_index
RunWriteIndex(r) ==
    /\ store_backend = "faiss"
    /\ run_pc[r] = "adding"
    /\ run_pc' = [run_pc EXCEPT ![r] = "index_written"]
    /\ dir_index' = [run |-> r, entries |-> run_added[r]]
    /\ UNCHANGED <<store_backend, run_added, dir_collection, dir_metadata, notDir>>

\* FAISSVectorStore.persist of run r, pickle.dump
RunDumpMetadata(r) ==
    /\ store_backend = "faiss"
    /\ run_pc[r] = "index_written"
    /\ run_pc' = [run_pc EXCEPT ![r] = "done"]
    /\ dir_metadata' = [run |-> r, entries |-> run_added[r]]
    /\ UNCHANGED <<store_backend, run_added, dir_collection, dir_index, notDir>>

InitDir ==
    /\ MetaIdle
    /\ StoreIdle
    /\ ChunkIdle
    /\ FlowIdle
    /\ WalkIdle
    /\ RedactIdle
    /\ ParseIdle
    /\ ManifestIdle
    /\ RunIdle
    /\ BackendsIdle
    /\ store_backend \in {"chroma", "faiss"}
    /\ run_pc = [r \in Runs |-> "start"]
    /\ run_added = [r \in Runs |-> 0]
    /\ dir_collection = <<>>
    /\ dir_index = <<>>
    /\ dir_metadata = <<>>

\* Two requests of the web server, or two processes: the steps of the two
\* runs interleave freely.
NextDir ==
    \E r \in Runs :
        \/ RunCreate(r)
        \/ RunAdd(r)
        \/ RunPersistChroma(r)
        \/ RunWriteIndex(r)
        \/ RunDumpMetadata(r)

SpecDir == InitDir /\ [][NextDir]_vars

\* Run r has the directory open for writing: with Chroma from the creation
\* of its client to the end of build_index, with FAISS inside persist.
HoldsDirectory(r) ==
    IF store_backend = "chroma"
    THEN run_pc[r] = "adding"
    ELSE run_pc[r] = "index_written"

\* C28: at most one of two concurrent runs on the same persist directory
\* has it open for writing at any time, and what is persisted is never
\* interleaved (Chroma entries) or mismatched (index.faiss of one run with
\* metadata.pkl of the other).
StorageDirectoryIsSingleWriter ==
    /\ Cardinality({r \in Runs : HoldsDirectory(r)}) <= 1
    /\ \A i, j, k \in 1..Len(dir_collection) :
          (i < j /\ j < k /\ dir_collection[i] = dir_collection[k])
              => dir_collection[j] = dir_collection[i]
    /\ (/\ dir_index # <<>>
        /\ dir_metadata # <<>>
        /\ \A r \in Runs : run_pc[r] # "index_written")
          => dir_index = dir_metadata

====
